---- MODULE Spec2Model ----
(***************************************************************************)
(* Model of the Tiki / Lazada product pipeline.                            *)
(*                                                                         *)
(*   Spec         the load side of a DAG run (dags/master_pipeline.py):    *)
(*                combine_and_load (upsert into all_products) followed by  *)
(*                track_price_history (snapshot into price_history).       *)
(*   SpecLoadAny  the same, for batches with entries that are skipped      *)
(*   SpecAttach   one call of _attach_reviews_concurrently                 *)
(*   SpecReviews  one call of get_product_reviews                          *)
(*   SpecExtract  one call of extract_lazada_data                          *)
(*   SpecEnrich   one call of enrich_product_data                          *)
(*   SpecTiki     one call of run_tiki_etl                                 *)
(*   SpecDag      the task instances of one DAG run                        *)
(*   SpecParse    one call of _parse_reviews_from_html                     *)
(*   SpecClean    the cleaning of one listing by its source's transform    *)
(*                                                                         *)
(* A Python dict is a TLA+ record; a key the dict lacks is a field the     *)
(* record lacks.  Python None / SQL NULL is NoneInt in a numeric position  *)
(* and NoneText in a text position.  A review score is an integer number   *)
(* of thousandths (4.5 is 4500) so that the DECIMAL(3,2) column's rounding *)
(* is computed and not assumed.                                            *)
(***************************************************************************)
EXTENDS Integers, Sequences, FiniteSets, TLC

\* ------------------------------------------------------------------ bounds
MaxBatch == 2      \* products handed to one combine_and_load call
MaxRuns == 2       \* DAG runs in one behaviour
MaxItems == 3      \* products handed to one _attach_reviews_concurrently call
MaxWorkers == 2    \* largest max_workers tried
MaxRetries == 2    \* largest retries tried
MaxPages == 2      \* result pages of one extract_lazada_data call
MaxElems == 2      \* product elements on one result page
MaxTikiPages == 3  \* pages of one extract_tiki_data call
MaxScripts == 2    \* ld+json scripts in one product page
MaxCandidates == 2 \* objects in one ld+json list
MaxPriceLen == 6   \* characters of a price text
MaxSoldLen == 5    \* characters of a sold-count text

\* ---------------------------------------------------------- value universe
NoneInt == -1
NoneText == "None"

Names == {"iphone 15"}
Sources == {"Tiki", "Lazada"}
TikiVariants == {1}       \* crawls of a Tiki listing that differ
LazadaVariants == {1, 2}  \* crawls of a Lazada listing that differ
Dates == {1, 2}          \* logical dates (ds) of the DAG runs

\* ------------------------------------------------------------------- state
VARIABLES
    all_products,    \* table all_products: a set of rows
    price_history,   \* table price_history: a set of rows
    pc,              \* position of the current DAG run
    ds,              \* logical date of the current DAG run
    now,             \* CURRENT_TIMESTAMP, in schedule intervals: the number
                     \* of the current DAG run
    tiki_data,       \* argument of the latest combine_and_load call
    lazada_data,     \* argument of the latest combine_and_load call
    load_summary,    \* return value of the latest combine_and_load call
    history_count,   \* return value of the latest track_price_history call
    db_error,        \* the run's writes that raised: load, one entry per
                     \* execution of combine_and_load; history, the snapshot
    try_number,      \* executions of combine_and_load in the current DAG run
    prev_run,        \* summary of the previous DAG run
    \* --- _attach_reviews_concurrently
    items,           \* the products argument as it was passed
    products,        \* the products argument, updated in place
    max_workers,     \* the max_workers argument
    site,            \* what the site answers to the successive GETs of a URL
    apc,             \* position of the calling thread
    futures,         \* index -> state of the fetch submitted for it
    results,         \* index -> what the finished fetch returned
    merged,          \* indices in the order their results were written back
    \* --- get_product_reviews
    rv_in,           \* arguments of the call and the site's answers
    rv_out,          \* what the call did and returned
    \* --- extract_lazada_data
    web,             \* what the browser meets on each result page
    max_products_per_query,  \* the argument; 0 is None
    xpc,             \* position of the call
    driver,          \* the WebDriver: "none", "open" or "quit"
    page,            \* loop variable of the page loop
    raw_products_data,  \* the list returned
    collected,       \* the counter of the same name
    propagating,     \* an exception is propagating out of the try block
    calls,           \* the driver calls made: page loads and quit, in order
    \* --- enrich_product_data
    en_in,           \* the product argument as it was passed
    en_out,          \* position of the call, and what it returned
    \* --- run_tiki_etl
    tiki_api,        \* what the Tiki API answers: query -> page -> response
    tpc,             \* position of the call
    search_query,    \* index of the query being processed
    tiki_page,       \* loop variable of the page loop of extract_tiki_data
    all_products_data,     \* the list extract_tiki_data is building
    all_transformed_data,  \* the list run_tiki_etl is building
    requests,        \* the <<query, page>> requests sent, in order
    enrich_args,     \* the dicts enrich_product_data was called with
    \* --- the task instances of one DAG run
    task_state,      \* task id -> state of its task instance
    tries,           \* task id -> executions started
    finished,        \* task ids in the order their instances ended
    \* --- _parse_reviews_from_html
    scripts,         \* the ld+json scripts found in the html argument
    ps_out,          \* position of the call, and what it returned
    \* --- transform_lazada_data / transform_tiki_data on one listing
    cl_in,           \* the raw listing
    cl_out           \* position of the call, and what it returned

loadVars == <<all_products, price_history, pc, ds, now, tiki_data, lazada_data,
              load_summary, history_count, db_error, try_number, prev_run>>

attachVars == <<items, products, max_workers, site, apc, futures, results, merged>>

reviewVars == <<rv_in, rv_out>>

extractVars == <<web, max_products_per_query, xpc, driver, page,
                 raw_products_data, collected, propagating, calls>>

enrichVars == <<en_in, en_out>>

tikiVars == <<tiki_api, tpc, search_query, tiki_page, all_products_data,
              all_transformed_data, requests, enrich_args>>

dagVars == <<task_state, tries, finished>>

parseVars == <<scripts, ps_out>>

cleanVars == <<cl_in, cl_out>>

vars == <<loadVars, attachVars, reviewVars, extractVars, enrichVars, tikiVars,
          dagVars, parseVars, cleanVars>>

\* what the steps of one part of the program leave alone
outsideLoad ==
    <<attachVars, reviewVars, extractVars, enrichVars, tikiVars, dagVars,
      parseVars, cleanVars>>

outsideAttach ==
    <<loadVars, reviewVars, extractVars, enrichVars, tikiVars, dagVars,
      parseVars, cleanVars>>

outsideReviews ==
    <<loadVars, attachVars, extractVars, enrichVars, tikiVars, dagVars,
      parseVars, cleanVars>>

outsideExtract ==
    <<loadVars, attachVars, reviewVars, enrichVars, tikiVars, dagVars,
      parseVars, cleanVars>>

outsideEnrich ==
    <<loadVars, attachVars, reviewVars, extractVars, tikiVars, dagVars,
      parseVars, cleanVars>>

outsideTiki ==
    <<loadVars, attachVars, reviewVars, extractVars, enrichVars, dagVars,
      parseVars, cleanVars>>

outsideDag ==
    <<loadVars, attachVars, reviewVars, extractVars, enrichVars, tikiVars,
      parseVars, cleanVars>>

outsideParse ==
    <<loadVars, attachVars, reviewVars, extractVars, enrichVars, tikiVars,
      dagVars, cleanVars>>

outsideClean ==
    <<loadVars, attachVars, reviewVars, extractVars, enrichVars, tikiVars,
      dagVars, parseVars>>

\* ------------------------------------------------------------ dict helpers
Get(d, k, default) == IF k \in DOMAIN d THEN d[k] ELSE default

Range(s) == {s[i] : i \in 1..Len(s)}

SeqsUpTo(S, n) == UNION {[1..k -> S] : k \in 0..n}

\* ------------------------------------------------------------ product names
\* The names tried, written without diacritics.  str.lower() and the `in`
\* test on strings are given for these names by listing: lower(name) is the
\* name in lower case, keywords_in(name_lower) the keywords of BRAND_KEYWORDS
\* and of the category tests that are substrings of it.
lower(name) ==
    CASE name = "iPhone MacBook" -> "iphone macbook"
      [] name = "Laptop iPad" -> "laptop ipad"
      [] name = "Dien Thoai Galaxy Tab" -> "dien thoai galaxy tab"
      [] name = "Galaxy Tab" -> "galaxy tab"
      [] name = "ThinkPad XPS" -> "thinkpad xps"
      [] name = "May Tinh Bang" -> "may tinh bang"
      [] name = "Op lung" -> "op lung"
      [] OTHER -> name

keywords_in(name_lower) ==
    CASE name_lower = "iphone 15" -> {"iphone"}
      [] name_lower = "iphone macbook" -> {"iphone", "macbook"}
      [] name_lower = "laptop ipad" -> {"laptop", "ipad"}
      [] name_lower = "dien thoai galaxy tab"
           -> {"dien thoai", "galaxy", "galaxy tab", "tab"}
      [] name_lower = "galaxy tab" -> {"galaxy", "galaxy tab", "tab"}
      [] name_lower = "thinkpad xps" -> {"thinkpad", "xps"}
      [] name_lower = "may tinh bang" -> {"may tinh bang"}
      [] OTHER -> {}

\* keyword in name_lower
contains(name_lower, keyword) == keyword \in keywords_in(name_lower)

BRAND_KEYWORDS ==
    <<[brand_name |-> "Apple", keywords |-> {"iphone", "macbook", "ipad", "apple"}],
      [brand_name |-> "Samsung", keywords |-> {"samsung", "galaxy", "note", "tab"}],
      [brand_name |-> "Xiaomi", keywords |-> {"xiaomi", "redmi", "mi"}],
      [brand_name |-> "OPPO", keywords |-> {"oppo", "reno", "find x"}],
      [brand_name |-> "Huawei", keywords |-> {"huawei", "mate", "p20", "honor"}],
      [brand_name |-> "Asus", keywords |-> {"asus", "zenfone", "rog"}],
      [brand_name |-> "Lenovo", keywords |-> {"lenovo", "thinkpad", "yoga"}],
      [brand_name |-> "Dell", keywords |-> {"dell", "xps", "inspiron"}],
      [brand_name |-> "HP", keywords |-> {"hp", "pavilion", "envy"}]>>

\* for brand_name, keywords in BRAND_KEYWORDS.items(): the first brand one of
\* whose keywords is in the name
brand(name_lower) ==
    LET hits == {k \in 1..Len(BRAND_KEYWORDS) :
                    \E keyword \in BRAND_KEYWORDS[k].keywords :
                        contains(name_lower, keyword)}
    IN  IF hits = {} THEN "Unknown"
        ELSE BRAND_KEYWORDS[CHOOSE k \in hits : \A j \in hits : k <= j].brand_name

\* mutant: the laptop keywords are tested before the phone keywords
tiki_category_laptop_first(name_lower) ==
    IF contains(name_lower, "laptop") \/ contains(name_lower, "macbook")
       \/ contains(name_lower, "thinkpad") \/ contains(name_lower, "xps")
    THEN "Laptop"
    ELSE IF contains(name_lower, "dien thoai") \/ contains(name_lower, "iphone")
    THEN "Dien thoai"
    ELSE IF contains(name_lower, "may tinh bang") \/ contains(name_lower, "ipad")
            \/ contains(name_lower, "galaxy tab")
    THEN "May tinh bang"
    ELSE "Accessory"

\* the if / elif chain of transform_tiki_data
tiki_category(name_lower) ==
    IF contains(name_lower, "dien thoai") \/ contains(name_lower, "iphone")
    THEN "Dien thoai"
    ELSE IF contains(name_lower, "laptop") \/ contains(name_lower, "macbook")
            \/ contains(name_lower, "thinkpad") \/ contains(name_lower, "xps")
    THEN "Laptop"
    ELSE IF contains(name_lower, "may tinh bang") \/ contains(name_lower, "ipad")
            \/ contains(name_lower, "galaxy tab")
    THEN "May tinh bang"
    ELSE "Accessory"

\* the if / elif chain of transform_lazada_data
lazada_category(name_lower) ==
    IF contains(name_lower, "dien thoai") \/ contains(name_lower, "iphone")
    THEN "Dien thoai"
    ELSE IF contains(name_lower, "laptop") \/ contains(name_lower, "macbook")
            \/ contains(name_lower, "thinkpad") \/ contains(name_lower, "xps")
    THEN "Laptop"
    ELSE IF contains(name_lower, "may tinh bang") \/ contains(name_lower, "ipad")
            \/ contains(name_lower, "galaxy tab")
    THEN "May tinh bang"
    ELSE "Accessory"

\* brand and category are computed from the cleaned name alone
BrandOf(name) == brand(lower(name))

CategoryOf(name) == lazada_category(lower(name))

\* The fields of a product that change from one crawl to the next.
VariantFields(source, v) ==
    IF v = 1
    THEN [price |-> 100, sold_count |-> 40, review_count |-> 4,
          review_score |-> 4500, original_price |-> 125, discount_rate |-> 20,
          shop_name |-> IF source = "Tiki" THEN "Tiki Trading" ELSE "LazMall Apple",
          shop_location |-> IF source = "Tiki" THEN NoneText ELSE "Ho Chi Minh",
          shipping_fee_est |-> 0, stock_status |-> "Con hang",
          rating_count_5s |-> 3, rating_count_1s |-> 0]
    ELSE [price |-> 90, sold_count |-> 60, review_count |-> 6,
          review_score |-> 4300, original_price |-> 120, discount_rate |-> 25,
          shop_name |-> IF source = "Tiki" THEN "Anker Official" ELSE "Shop Ban Re",
          shop_location |-> IF source = "Tiki" THEN NoneText ELSE "Lang Son",
          shipping_fee_est |-> IF source = "Tiki" THEN 12000 ELSE 25000,
          stock_status |-> "Sap het hang",
          rating_count_5s |-> 3, rating_count_1s |-> 1]

\* A product as transform_tiki_data emits it: no est_monthly_revenue key.
TikiProduct(name, v) ==
    LET f == VariantFields("Tiki", v) IN
    [name |-> name, price |-> f.price, sold_count |-> f.sold_count,
     review_count |-> f.review_count, review_score |-> f.review_score,
     brand |-> BrandOf(name), category |-> CategoryOf(name), source |-> "Tiki",
     original_price |-> f.original_price, discount_rate |-> f.discount_rate,
     shop_name |-> f.shop_name, shop_location |-> f.shop_location,
     shipping_fee_est |-> f.shipping_fee_est, stock_status |-> f.stock_status,
     rating_count_5s |-> f.rating_count_5s, rating_count_1s |-> f.rating_count_1s]

\* A product as transform_lazada_data emits it: enrich_product_data has set
\* est_monthly_revenue = int(price * (sold_count * 0.05)).
LazadaProduct(name, v) ==
    LET f == VariantFields("Lazada", v) IN
    [name |-> name, price |-> f.price, sold_count |-> f.sold_count,
     review_count |-> f.review_count, review_score |-> f.review_score,
     brand |-> BrandOf(name), category |-> CategoryOf(name), source |-> "Lazada",
     original_price |-> f.original_price, discount_rate |-> f.discount_rate,
     shop_name |-> f.shop_name, shop_location |-> f.shop_location,
     shipping_fee_est |-> f.shipping_fee_est, stock_status |-> f.stock_status,
     rating_count_5s |-> f.rating_count_5s, rating_count_1s |-> f.rating_count_1s,
     est_monthly_revenue |-> (f.price * f.sold_count * 5) \div 100]

TikiProducts == {TikiProduct(n, v) : n \in Names, v \in TikiVariants}

LazadaProducts == {LazadaProduct(n, v) : n \in Names, v \in LazadaVariants}

\* ------------------------------------------------- combine_and_load (load)
\* `product is None` (a None entry of the batch is the record [is_none |-> TRUE])
IsNone(product) == "is_none" \in DOMAIN product

\* mutant: est_monthly_revenue is read with product[...] as well
RequiredKeys_and_revenue ==
    {"name", "price", "sold_count", "brand", "category", "source",
     "est_monthly_revenue"}

\* the keys read with product[...]: a missing one raises KeyError
RequiredKeys == {"name", "price", "sold_count", "brand", "category", "source"}

\* the tuple appended to rows_to_insert for one product
RowOf(product) ==
    [name |-> product.name,
     price |-> product.price,
     sold_count |-> product.sold_count,
     review_count |-> Get(product, "review_count", 0),
     review_score |-> Get(product, "review_score", 0),
     brand |-> product.brand,
     category |-> product.category,
     source |-> product.source,
     original_price |-> Get(product, "original_price", NoneInt),
     discount_rate |-> Get(product, "discount_rate", NoneInt),
     shop_name |-> Get(product, "shop_name", NoneText),
     shop_location |-> Get(product, "shop_location", NoneText),
     shipping_fee_est |-> Get(product, "shipping_fee_est", NoneInt),
     stock_status |-> Get(product, "stock_status", NoneText),
     rating_count_1s |-> Get(product, "rating_count_1s", 0),
     rating_count_5s |-> Get(product, "rating_count_5s", 0),
     est_monthly_revenue |-> Get(product, "est_monthly_revenue", 0)]

RECURSIVE rows_to_insert(_)
rows_to_insert(all_data) ==
    IF all_data = <<>> THEN <<>>
    ELSE LET product == Head(all_data)
             rest == rows_to_insert(Tail(all_data))
         IN  IF IsNone(product) THEN rest
             ELSE IF ~(RequiredKeys \subseteq DOMAIN product) THEN rest
             ELSE <<RowOf(product)>> \o rest

\* review_score DECIMAL(3,2): a value in thousandths rounded to hundredths
Decimal32(x) == ((x + 5) \div 10) * 10

Int32Max == 2147483647

FitsInt(x) == x = NoneInt \/ (x >= -Int32Max - 1 /\ x <= Int32Max)

\* the constraints of all_products that make one INSERT raise
RowRaises(row) ==
    \/ row.name = NoneText
    \/ Decimal32(row.review_score) >= 10000
    \/ ~FitsInt(row.price)
    \/ ~FitsInt(row.sold_count)
    \/ ~FitsInt(row.review_count)
    \/ ~FitsInt(row.original_price)
    \/ ~FitsInt(row.discount_rate)
    \/ ~FitsInt(row.shipping_fee_est)
    \/ ~FitsInt(row.rating_count_1s)
    \/ ~FitsInt(row.rating_count_5s)

\* the row the VALUES clause proposes for insertion (EXCLUDED)
Excluded(row, ts) ==
    [name |-> row.name, price |-> row.price, sold_count |-> row.sold_count,
     review_count |-> row.review_count,
     review_score |-> Decimal32(row.review_score),
     brand |-> row.brand, category |-> row.category, source |-> row.source,
     crawled_at |-> ts,
     original_price |-> row.original_price, discount_rate |-> row.discount_rate,
     shop_name |-> row.shop_name, shop_location |-> row.shop_location,
     shipping_fee_est |-> row.shipping_fee_est, stock_status |-> row.stock_status,
     rating_count_1s |-> row.rating_count_1s,
     rating_count_5s |-> row.rating_count_5s,
     est_monthly_revenue |-> row.est_monthly_revenue]

\* UNIQUE(name, source): the rows a proposed row conflicts with.  NULLs are
\* distinct in a UNIQUE constraint, so a NULL source conflicts with nothing.
ConflictRows(table, row) ==
    {r \in table : r.name = row.name /\ r.source = row.source
                   /\ row.source # NoneText}

\* mutant: sold_count is accumulated instead of overwritten
DoUpdateSet_accumulate(r, ex) ==
    [r EXCEPT !.price = ex.price,
              !.sold_count = @ + ex.sold_count,
              !.review_count = ex.review_count,
              !.original_price = ex.original_price,
              !.discount_rate = ex.discount_rate,
              !.stock_status = ex.stock_status,
              !.est_monthly_revenue = ex.est_monthly_revenue,
              !.crawled_at = ex.crawled_at]

\* DO UPDATE SET ...
DoUpdateSet(r, ex) ==
    [r EXCEPT !.price = ex.price,
              !.sold_count = ex.sold_count,
              !.review_count = ex.review_count,
              !.original_price = ex.original_price,
              !.discount_rate = ex.discount_rate,
              !.stock_status = ex.stock_status,
              !.est_monthly_revenue = ex.est_monthly_revenue,
              !.crawled_at = ex.crawled_at]

\* mutant: a plain INSERT into a table without the UNIQUE constraint
insert_sql_plain(table, row, ts) == table \cup {Excluded(row, ts)}

\* one execution of insert_sql
insert_sql(table, row, ts) ==
    LET ex == Excluded(row, ts)
        hit == ConflictRows(table, row)
    IN  IF hit = {} THEN table \cup {ex}
        ELSE (table \ hit) \cup {DoUpdateSet(r, ex) : r \in hit}

\* cursor.executemany: one statement per row, in order, inside the open
\* transaction; fail_at is the row whose statement the database rejects
\* (0: none).
RECURSIVE executemany(_, _, _, _, _)
executemany(table, rows, i, fail_at, ts) ==
    IF i > Len(rows) THEN [table |-> table, raised |-> FALSE]
    ELSE IF i = fail_at \/ RowRaises(rows[i])
         THEN [table |-> table, raised |-> TRUE]
         ELSE executemany(insert_sql(table, rows[i], ts), rows, i + 1, fail_at, ts)

\* mutant: every statement was committed as it ran (autocommit)
rollback_autocommit(before, working) == working

\* conn.rollback(): the table as it was when the transaction began
rollback(before, working) == before

\* (name, source) of the rows a batch writes
Idents(all_data) ==
    {<<r.name, r.source>> : r \in Range(rows_to_insert(all_data))}

combine_and_load(td, ld, fail_at) ==
    /\ LET all_data == td \o ld IN
       IF all_data = <<>>
       THEN /\ load_summary' = [processed_total |-> 0]
            /\ all_products' = all_products
            /\ db_error' = [db_error EXCEPT !.load = Append(@, FALSE)]
       ELSE LET rows == rows_to_insert(all_data)
                tx == executemany(all_products, rows, 1, fail_at, now)
                raised == tx.raised \/ fail_at = Len(rows) + 1
                processed == IF raised THEN 0 ELSE Len(rows)
            IN  /\ all_products' = IF raised THEN rollback(all_products, tx.table)
                                   ELSE tx.table
                /\ load_summary' = [tiki_count |-> Len(td),
                                    lazada_count |-> Len(ld),
                                    processed_total |-> processed]
                /\ db_error' = [db_error EXCEPT !.load = Append(@, raised)]
    /\ tiki_data' = td
    /\ lazada_data' = ld
    /\ pc' = "loaded"
    /\ try_number' = try_number + 1
    /\ UNCHANGED <<price_history, ds, now, history_count, prev_run>>

\* DEFAULT_ARGS['retries']: re-executions the scheduler grants a task
retries == 1

\* first execution of the task in a run, on the two source tasks' results
run_combine_and_load(td, ld, fail_at) ==
    /\ pc = "start"
    /\ combine_and_load(td, ld, fail_at)

\* the scheduler executes the task again on the same arguments (the first
\* execution raised after its commit, while closing the connection)
retry_combine_and_load(fail_at) ==
    /\ pc = "loaded"
    /\ try_number <= retries
    /\ combine_and_load(tiki_data, lazada_data, fail_at)

\* ------------------------------------------ track_price_history (snapshot)
\* mutant: UNIQUE(name, source), the date left out of the key
HistoryConflict_no_date(table, name, source, crawl_date) ==
    \E h \in table : h.name = name /\ h.source = source

\* UNIQUE(name, source, crawl_date)
HistoryConflict(table, name, source, crawl_date) ==
    \E h \in table : h.name = name /\ h.source = source /\ h.crawl_date = crawl_date

\* the row the SELECT projects from one all_products row, in the columns
\* CREATE_TABLES_SQL declares for price_history (id apart)
HistoryRow(ap, crawl_date, ts) ==
    [name |-> ap.name, source |-> ap.source, price |-> ap.price,
     sold_count |-> ap.sold_count, crawl_date |-> crawl_date,
     created_at |-> ts, est_monthly_revenue |-> ap.est_monthly_revenue]

\* mutant: ON CONFLICT ... DO UPDATE, the day's rows are overwritten
insert_history_sql_do_update(history, catalog, crawl_date, ts) ==
    LET fresh == {HistoryRow(ap, crawl_date, ts) : ap \in catalog}
        kept == {h \in history :
                   \A g \in fresh : <<g.name, g.source, g.crawl_date>>
                                      # <<h.name, h.source, h.crawl_date>>}
    IN  [table |-> kept \cup fresh, rowcount |-> Cardinality(fresh)]

\* mutant: the snapshot of a date replaces the rows of every other date
insert_history_sql_truncate(history, catalog, crawl_date, ts) ==
    LET added == {HistoryRow(ap, crawl_date, ts) :
                    ap \in {r \in catalog :
                        ~HistoryConflict(history, r.name, r.source, crawl_date)}}
    IN  [table |-> {h \in history : h.crawl_date = crawl_date} \cup added,
         rowcount |-> Cardinality(added)]

\* INSERT INTO price_history ... SELECT ... FROM all_products ap
\* ON CONFLICT (name, source, crawl_date) DO NOTHING: the table afterwards and
\* cursor.rowcount
insert_history_sql(history, catalog, crawl_date, ts) ==
    LET added == {HistoryRow(ap, crawl_date, ts) :
                    ap \in {r \in catalog :
                        ~HistoryConflict(history, r.name, r.source, crawl_date)}}
    IN  [table |-> history \cup added, rowcount |-> Cardinality(added)]

\* mutant: the guard lets a run that loaded nothing through
nothing_loaded_strict(summary) == Get(summary, "processed_total", 0) < 0

\* the guard of track_price_history: nothing was loaded in this run
nothing_loaded(summary) == Get(summary, "processed_total", 0) <= 0

track_price_history(raises) ==
    /\ pc = "loaded"
    /\ IF nothing_loaded(load_summary)
       THEN /\ history_count' = 0
            /\ price_history' = price_history
            /\ db_error' = [db_error EXCEPT !.history = FALSE]
       ELSE IF raises
       THEN /\ history_count' = 0
            /\ price_history' = price_history
            /\ db_error' = [db_error EXCEPT !.history = TRUE]
       ELSE LET done == insert_history_sql(price_history, all_products, ds, now)
            IN  /\ price_history' = done.table
                /\ history_count' = done.rowcount
                /\ db_error' = [db_error EXCEPT !.history = FALSE]
    /\ pc' = "done"
    /\ UNCHANGED <<all_products, ds, now, tiki_data, lazada_data,
                   load_summary, try_number, prev_run>>

\* ------------------------------------------------------------ the DAG runs
NoRun == [ds |-> 0, idents |-> {}, processed_total |-> 0,
          load_error |-> FALSE, history_error |-> FALSE]

\* the latest execution of combine_and_load took the except branch
LoadRaised == db_error.load # <<>> /\ db_error.load[Len(db_error.load)]

ThisRun == [ds |-> ds, idents |-> Idents(tiki_data \o lazada_data),
            processed_total |-> load_summary.processed_total,
            load_error |-> LoadRaised, history_error |-> db_error.history]

\* the scheduler starts the next run of master_product_pipeline for date d
master_product_pipeline(d) ==
    /\ pc = "done"
    /\ now < MaxRuns
    /\ pc' = "start"
    /\ ds' = d
    /\ now' = now + 1
    /\ prev_run' = ThisRun
    /\ tiki_data' = <<>>
    /\ lazada_data' = <<>>
    /\ load_summary' = [processed_total |-> 0]
    /\ history_count' = 0
    /\ db_error' = [load |-> <<>>, history |-> FALSE]
    /\ try_number' = 0
    /\ UNCHANGED <<all_products, price_history>>

\* the batches the two source tasks hand over
Batches ==
    {b \in SeqsUpTo(TikiProducts, MaxBatch) \X SeqsUpTo(LazadaProducts, MaxBatch) :
        Len(b[1]) + Len(b[2]) <= MaxBatch}

\* entries of a batch that are not products: None, and a dict without `price`
NoneProduct == [is_none |-> TRUE]

Unpriced(product) == [f \in DOMAIN product \ {"price"} |-> product[f]]

\* batches in which such entries stand among the products
AnyBatches ==
    {b \in SeqsUpTo(TikiProducts \cup {NoneProduct}, MaxBatch)
            \X SeqsUpTo(LazadaProducts
                        \cup {NoneProduct, Unpriced(LazadaProduct("iphone 15", 1))},
                        MaxBatch) :
        Len(b[1]) + Len(b[2]) <= MaxBatch}

LoadInit ==
    /\ all_products = {}
    /\ price_history = {}
    /\ pc = "start"
    /\ ds = 1
    /\ now = 1
    /\ tiki_data = <<>>
    /\ lazada_data = <<>>
    /\ load_summary = [processed_total |-> 0]
    /\ history_count = 0
    /\ db_error = [load |-> <<>>, history |-> FALSE]
    /\ try_number = 0
    /\ prev_run = NoRun

\* ------------------------------------------------------ get_product_reviews
DEFAULT_REVIEW_RETRIES == 2

\* reviews_info = {"review_count": 0, "review_score": 0.0}
NoReviews == [review_count |-> 0, review_score |-> 0]

\* What one session.get of a product page comes to: a RequestException
\* ("transport": connection error, timeout, or the HTTP error raise_for_status
\* raises), any other exception ("parse"), or a page whose rating block
\* _parse_reviews_from_html reads as `parsed` ("ok").
TransportError == [kind |-> "transport", parsed |-> NoReviews]

ParseError == [kind |-> "parse", parsed |-> NoReviews]

Page(review_count, review_score) ==
    [kind |-> "ok",
     parsed |-> [review_count |-> review_count, review_score |-> review_score]]

Min(a, b) == IF a <= b THEN a ELSE b

Max(a, b) == IF a >= b THEN a ELSE b

\* mutant: a parse failure is retried like a transport failure
RECURSIVE retry_loop_retry_parse(_, _, _, _)
retry_loop_retry_parse(answers, retries_arg, attempt, slept) ==
    IF attempt > retries_arg
    THEN [reviews_info |-> NoReviews, attempts |-> attempt - 1, slept |-> slept]
    ELSE LET answer == answers[attempt] IN
         IF answer.kind # "ok"
         THEN retry_loop_retry_parse(answers, retries_arg, attempt + 1,
                                     Append(slept, Min(3 * attempt, 10)))
         ELSE [reviews_info |-> answer.parsed, attempts |-> attempt, slept |-> slept]

\* the retry loop from its attempt-th pass on; answers[n] is what the n-th
\* GET comes to, slept the time.sleep calls made so far
RECURSIVE retry_loop(_, _, _, _)
retry_loop(answers, retries_arg, attempt, slept) ==
    IF attempt > retries_arg
    THEN [reviews_info |-> NoReviews, attempts |-> attempt - 1, slept |-> slept]
    ELSE LET answer == answers[attempt] IN
         IF answer.kind = "transport"
         THEN retry_loop(answers, retries_arg, attempt + 1,
                         Append(slept, Min(3 * attempt, 10)))
         ELSE IF answer.kind = "parse"
         THEN [reviews_info |-> NoReviews, attempts |-> attempt, slept |-> slept]
         ELSE [reviews_info |->
                   IF answer.parsed.review_count # 0 \/ answer.parsed.review_score # 0
                   THEN answer.parsed ELSE NoReviews,
               attempts |-> attempt, slept |-> slept]

\* get_product_reviews(product_url, timeout, retries): the stats returned, the
\* number of GETs issued and the sleeps taken
get_product_reviews(product_url, answers, retries_arg) ==
    IF product_url = ""
    THEN [reviews_info |-> NoReviews, attempts |-> 0, slept |-> <<>>]
    ELSE retry_loop(answers, retries_arg, 1, <<>>)

\* _safe_get_reviews: the dict of get_product_reviews with both keys set
safe_get_reviews(url, answers, retries_arg) ==
    LET data == get_product_reviews(url, answers, retries_arg).reviews_info
    IN  [review_count |-> Get(data, "review_count", 0),
         review_score |-> Get(data, "review_score", 0)]

Answers == {TransportError, ParseError, Page(12, 4500), Page(0, 0)}

ReviewInit ==
    /\ rv_in \in [product_url : {"u1"},
                  answers : [1..(MaxRetries + 1) -> Answers],
                  retries : 0..MaxRetries]
    /\ rv_out = [pc |-> "call", reviews_info |-> NoReviews, attempts |-> 0,
                 slept |-> <<>>]

ReviewIdle ==
    /\ rv_in = [product_url |-> "", answers |-> <<>>, retries |-> 0]
    /\ rv_out = [pc |-> "idle", reviews_info |-> NoReviews, attempts |-> 0,
                 slept |-> <<>>]

lookup ==
    /\ rv_out.pc = "call"
    /\ LET r == get_product_reviews(rv_in.product_url, rv_in.answers, rv_in.retries)
       IN  rv_out' = [pc |-> "returned", reviews_info |-> r.reviews_info,
                      attempts |-> r.attempts, slept |-> r.slept]
    /\ UNCHANGED rv_in

\* --------------------------------------------- _attach_reviews_concurrently
Urls == {"u1", "u2"}

\* dict.update
update(d, other) == other @@ d

\* urls = [(idx, p.get("product_url")) for idx, p in enumerate(products)
\*         if p.get("product_url")]: the indices, in order
RECURSIVE url_indices(_, _)
url_indices(ps, idx) ==
    IF idx > Len(ps) THEN <<>>
    ELSE IF Get(ps[idx], "product_url", "") # ""
         THEN <<idx>> \o url_indices(ps, idx + 1)
         ELSE url_indices(ps, idx + 1)

urls == url_indices(products, 1)

\* mutant: one worker per URL, whatever max_workers says
workers_per_url == Max(1, Len(urls))

workers == Max(1, Min(max_workers, Len(urls)))

\* what the fetch submitted for products[idx] returns
fetch(idx) ==
    safe_get_reviews(products[idx].product_url, site[products[idx].product_url],
                     DEFAULT_REVIEW_RETRIES)

InState(st) == {idx \in DOMAIN futures : futures[idx] = st}

\* mutant: the k-th future to complete is written back to the k-th URL
target_by_completion(idx) == urls[Len(merged) + 1]

\* idx = futures[future]: the product a completed future is written back to
target(idx) == idx

\* the answers a site gives to the GETs of one URL
SiteAnswers ==
    {<<Page(12, 4500), Page(12, 4500)>>,
     <<TransportError, Page(7, 3900)>>,
     <<TransportError, TransportError>>,
     <<ParseError, Page(12, 4500)>>}

\* the page_products lists handed over: the i-th product is named after i, and
\* has a product_url or none
ItemListsOf(k) ==
    {[i \in 1..k |-> [name_raw |-> ToString(i), product_url |-> u[i]]] :
        u \in [1..k -> Urls \cup {""}]}

AttachInit ==
    /\ items \in UNION {ItemListsOf(k) : k \in 0..MaxItems}
    /\ products = items
    /\ max_workers \in 0..MaxWorkers
    /\ site \in [Urls -> SiteAnswers]
    /\ apc = "call"
    /\ futures = <<>>
    /\ results = <<>>
    /\ merged = <<>>

AttachIdle ==
    /\ items = <<>>
    /\ products = <<>>
    /\ max_workers = 0
    /\ site = <<>>
    /\ apc = "idle"
    /\ futures = <<>>
    /\ results = <<>>
    /\ merged = <<>>

\* entry: no URL, return; one worker, the loop in the calling thread; otherwise
\* every fetch is submitted to the pool
attach_begin ==
    /\ apc = "call"
    /\ IF urls = <<>>
       THEN apc' = "returned" /\ futures' = futures
       ELSE /\ apc' = IF workers = 1 THEN "sync" ELSE "pool"
            /\ futures' = [idx \in Range(urls) |-> "queued"]
    /\ UNCHANGED <<items, products, max_workers, site, results, merged>>

\* workers == 1: products[idx].update(_safe_get_reviews(url, ...)), in order
sync_fetch(idx) ==
    /\ apc = "sync"
    /\ futures[idx] = "queued"
    /\ \A j \in InState("queued") : idx <= j
    /\ products' = [products EXCEPT ![idx] = update(@, fetch(idx))]
    /\ futures' = [futures EXCEPT ![idx] = "merged"]
    /\ merged' = Append(merged, idx)
    /\ apc' = IF InState("queued") = {idx} THEN "returned" ELSE "sync"
    /\ UNCHANGED <<items, max_workers, site, results>>

\* a free worker thread takes the oldest queued fetch
worker_start(idx) ==
    /\ apc = "pool"
    /\ futures[idx] = "queued"
    /\ \A j \in InState("queued") : idx <= j
    /\ Cardinality(InState("running")) < workers
    /\ futures' = [futures EXCEPT ![idx] = "running"]
    /\ UNCHANGED <<items, products, max_workers, site, apc, results, merged>>

\* a running fetch returns
worker_finish(idx) ==
    /\ apc = "pool"
    /\ futures[idx] = "running"
    /\ futures' = [futures EXCEPT ![idx] = "done"]
    /\ results' = (idx :> fetch(idx)) @@ results
    /\ UNCHANGED <<items, products, max_workers, site, apc, merged>>

\* for future in as_completed(futures): products[idx].update(future.result())
as_completed(idx) ==
    /\ apc = "pool"
    /\ futures[idx] = "done"
    /\ products' = [products EXCEPT ![target(idx)] = update(@, results[idx])]
    /\ futures' = [futures EXCEPT ![idx] = "merged"]
    /\ merged' = Append(merged, idx)
    /\ UNCHANGED <<items, max_workers, site, apc, results>>

\* the with block is left once every future has been handled
pool_exit ==
    /\ apc = "pool"
    /\ \A idx \in DOMAIN futures : futures[idx] = "merged"
    /\ apc' = "returned"
    /\ UNCHANGED <<items, products, max_workers, site, futures, results, merged>>

\* ------------------------------------------------------ extract_lazada_data
\* find_element(...) raises NoSuchElementException: the read has no value
Missing == "NoSuchElementException"

\* A product element of a result page: what reading its name, price and
\* sold-count text and its link gives.  The original-price and location
\* selectors match nothing on the pages modelled.
Element(name, price, sold, href) ==
    [name |-> name, price |-> price, sold |-> sold, href |-> href]

Elements ==
    {Element("full", "100 d", "Da ban 5", "u1"),
     Element("unsold", "90 d", Missing, "u2"),
     Element("unpriced", Missing, Missing, "u1"),
     Element(Missing, "80 d", Missing, Missing),
     Element(Missing, "70 d", "Da ban 2", Missing)}

\* What loading one result page comes to: driver.get raises, the wait for the
\* product region times out, the scroll script raises, find_elements raises,
\* or the page lists its elements.
PageOutcomes == {"get_raises", "wait_timeout", "scroll_raises", "find_raises"}

Pages ==
    {[outcome |-> o, elements |-> <<>>] : o \in PageOutcomes}
    \cup {[outcome |-> "ok", elements |-> es] : es \in SeqsUpTo(Elements, MaxElems)}

\* the stats every product page of the modelled site carries
ProductPage == <<Page(12, 4500), Page(12, 4500)>>

\* mutant: the cap is only noticed once it has been passed
cap_passed(cap, n) == cap # 0 /\ n > cap

\* `max_products_per_query and n >= max_products_per_query`
cap_reached(cap, n) == cap # 0 /\ n >= cap

\* the four reads of one element: sold_text is read in a try whose handler
\* reads product_url, so the link is read only when the sold-count read raised,
\* and a link read that raises there is not caught
read_element(e) ==
    LET name == IF e.name = Missing THEN "" ELSE e.name
        price == IF e.price = Missing THEN "" ELSE e.price
    IN  IF e.sold # Missing
        THEN [name |-> name, price |-> price, sold_text |-> e.sold,
              product_url |-> "", raised |-> FALSE]
        ELSE [name |-> name, price |-> price, sold_text |-> "",
              product_url |-> IF e.href = Missing THEN "" ELSE e.href,
              raised |-> e.href = Missing]

\* `for item in product_elements` from the k-th element on
RECURSIVE item_loop(_, _, _, _, _)
item_loop(elements, k, page_products, cap, n) ==
    IF k > Len(elements) \/ cap_reached(cap, n + Len(page_products))
    THEN [page_products |-> page_products, raised |-> FALSE]
    ELSE LET r == read_element(elements[k]) IN
         IF r.raised
         THEN [page_products |-> page_products, raised |-> TRUE]
         ELSE item_loop(elements, k + 1,
                        IF r.name # "" /\ r.price # "" /\ r.product_url # ""
                        THEN Append(page_products,
                                    [name_raw |-> r.name, price_raw |-> r.price,
                                     sold_raw |-> r.sold_text,
                                     product_url |-> r.product_url,
                                     original_price_raw |-> "",
                                     shop_location_raw |-> ""])
                        ELSE page_products,
                        cap, n)

\* _attach_reviews_concurrently(page_products, ...) as it leaves the list
attach_reviews(page_products) ==
    [i \in 1..Len(page_products) |->
        update(page_products[i],
               safe_get_reviews(page_products[i].product_url, ProductPage,
                                DEFAULT_REVIEW_RETRIES))]

\* raw_products_data.append({...}) for each product of the page
raw_product(product) ==
    [name_raw |-> product.name_raw, price_raw |-> product.price_raw,
     sold_raw |-> product.sold_raw,
     review_count |-> Get(product, "review_count", 0),
     review_score |-> Get(product, "review_score", 0),
     original_price_raw |-> Get(product, "original_price_raw", NoneText),
     shop_location_raw |-> Get(product, "shop_location_raw", NoneText)]

pages == Len(web)

\* mutant: the driver is closed on the normal path only
finally_quit_on_success(exc) == ~exc

\* finally: driver.quit(), whether or not an exception is propagating
finally_quit(exc) == TRUE

ExtractInit ==
    /\ web \in SeqsUpTo(Pages, MaxPages) \ {<<>>}
    /\ max_products_per_query \in 0..MaxElems
    /\ xpc = "call"
    /\ driver = "none"
    /\ page = 1
    /\ raw_products_data = <<>>
    /\ collected = 0
    /\ propagating = FALSE
    /\ calls = <<>>

ExtractIdle ==
    /\ web = <<>>
    /\ max_products_per_query = 0
    /\ xpc = "idle"
    /\ driver = "none"
    /\ page = 1
    /\ raw_products_data = <<>>
    /\ collected = 0
    /\ propagating = FALSE
    /\ calls = <<>>

\* driver = _create_driver(options=options), before the try block
create_driver(found) ==
    /\ xpc = "call"
    /\ IF found
       THEN driver' = "open" /\ xpc' = "loop" /\ propagating' = FALSE
       ELSE driver' = "none" /\ xpc' = "raised" /\ propagating' = TRUE
    /\ UNCHANGED <<web, max_products_per_query, page, raw_products_data,
                   collected, calls>>

\* the page loop ends: range(1, pages + 1) is exhausted, or the cap check at
\* the top of the body breaks
loop_exit ==
    /\ xpc = "loop"
    /\ page > pages \/ cap_reached(max_products_per_query, collected)
    /\ xpc' = "finally"
    /\ UNCHANGED <<web, max_products_per_query, driver, page,
                   raw_products_data, collected, propagating, calls>>

\* one pass of the page loop body
load_page ==
    /\ xpc = "loop"
    /\ page <= pages
    /\ ~cap_reached(max_products_per_query, collected)
    /\ calls' = Append(calls, [op |-> "get", page |-> page, collected |-> collected])
    /\ LET outcome == web[page].outcome
           r == item_loop(web[page].elements, 1, <<>>, max_products_per_query,
                          collected)
           page_products == attach_reviews(r.page_products)
       IN  IF outcome = "wait_timeout"
           THEN /\ page' = page + 1
                /\ UNCHANGED <<xpc, raw_products_data, collected, propagating>>
           ELSE IF outcome # "ok" \/ r.raised
           THEN /\ propagating' = TRUE
                /\ xpc' = "finally"
                /\ UNCHANGED <<page, raw_products_data, collected>>
           ELSE /\ raw_products_data' =
                       raw_products_data
                       \o [i \in 1..Len(page_products) |-> raw_product(page_products[i])]
                /\ collected' = collected + Len(page_products)
                /\ page' = page + 1
                /\ UNCHANGED <<xpc, propagating>>
    /\ UNCHANGED <<web, max_products_per_query, driver>>

\* the finally block, then the return or the propagating exception
driver_quit(quit_raises) ==
    /\ xpc = "finally"
    /\ IF finally_quit(propagating)
       THEN /\ calls' = Append(calls, [op |-> "quit", raises |-> quit_raises])
            /\ driver' = "quit"
       ELSE UNCHANGED <<calls, driver>>
    /\ xpc' = IF propagating THEN "raised" ELSE "returned"
    /\ UNCHANGED <<web, max_products_per_query, page, raw_products_data,
                   collected, propagating>>

\* ------------------------------------------------------ enrich_product_data
\* `not x` for a number and for a text
Falsy(x) == x = NoneInt \/ x = 0

FalsyText(x) == x = NoneText \/ x = ""

\* int(x) of the quotient n / d: truncation toward zero
Trunc(n, d) == IF n >= 0 THEN n \div d ELSE -((-n) \div d)

MOCK_SHOPS_TIKI ==
    <<[name |-> "Tiki Trading", loc |-> "Ho Chi Minh"],
      [name |-> "Samsung Flagship Store", loc |-> "Ha Noi"],
      [name |-> "Anker Official", loc |-> "Ho Chi Minh"],
      [name |-> "Minh Tuan Mobile", loc |-> "Ho Chi Minh"]>>

MOCK_SHOPS_LAZADA ==
    <<[name |-> "LazMall Apple", loc |-> "Ho Chi Minh"],
      [name |-> "Phu Kien Gia Xuong", loc |-> "Quoc Te"],
      [name |-> "Tech Zone Global", loc |-> "Ha Noi"],
      [name |-> "Shop Ban Re", loc |-> "Lang Son"]>>

\* The values the calls of `random` may give in one call of
\* enrich_product_data: the ends of each range.  A rate or a markup is in
\* thousandths, a score in thousandths.
Draws(source) ==
    [sold : {50, 5000},             \* randint(50, 200) or randint(500, 5000)
     review_rate : {50, 100},       \* uniform(0.05, 0.1)
     review : {1, 10},              \* randint(1, 10)
     score : {3500, 5000},          \* round(uniform(3.5, 5.0), 1)
     markup : {1100, 1400},         \* uniform(1.1, 1.4)
     shipping_fee : IF source = "Tiki" THEN {0, 15000} ELSE {0, 45000},
     shop : {1, 4},                 \* random.choice of the source's shops
     stock : {"Sap het hang", "Con hang"}]

\* `not product.get('shop_name')`
shop_missing(product) == FalsyText(Get(product, "shop_name", NoneText))

\* enrich_product_data(product) under the draws rnd: the dict returned, or
\* raised when line 89 divides by an original_price of 0
enrich_product_data(product, rnd) ==
    LET source == Get(product, "source", "Unknown")
        price == Get(product, "price", 0)
        sold_in == Get(product, "sold_count", NoneInt)
        sold_count == IF Falsy(sold_in) THEN rnd.sold ELSE sold_in
        review_in == Get(product, "review_count", NoneInt)
        review_est == (sold_count * rnd.review_rate) \div 1000
        review_count == IF ~Falsy(review_in) THEN review_in
                        ELSE IF review_est = 0 THEN rnd.review ELSE review_est
        score_in == Get(product, "review_score", NoneInt)
        review_score == IF Falsy(score_in) THEN rnd.score ELSE score_in
        original_in == Get(product, "original_price", NoneInt)
        original_price ==
            IF Falsy(original_in) \/ original_in <= price
            THEN (((price * rnd.markup) \div 1000) \div 1000) * 1000
            ELSE original_in
        shipping_in == Get(product, "shipping_fee_est", NoneInt)
        shop_data == IF source = "Tiki" THEN MOCK_SHOPS_TIKI[rnd.shop]
                     ELSE MOCK_SHOPS_LAZADA[rnd.shop]
        stock_in == Get(product, "stock_status", NoneText)
        counts == [sold_count |-> sold_count, review_count |-> review_count,
                   review_score |-> review_score,
                   rating_count_5s |-> IF review_score >= 4500
                                       THEN (review_count * 9) \div 10
                                       ELSE review_count \div 2,
                   rating_count_1s |-> IF review_score >= 4500
                                       THEN (review_count * 2) \div 100
                                       ELSE (review_count * 3) \div 10,
                   original_price |-> original_price]
        rest == [discount_rate |->
                     IF original_price = 0 THEN 0
                     ELSE Trunc((original_price - price) * 100, original_price),
                 shipping_fee_est |-> IF shipping_in = NoneInt
                                      THEN rnd.shipping_fee ELSE shipping_in,
                 stock_status |-> IF ~FalsyText(stock_in) THEN stock_in
                                  ELSE IF sold_count > 1000 THEN rnd.stock
                                  ELSE "Con hang",
                 \* int(price * (sold_count * 0.05)), 0.05 being 1 / 20: the
                 \* twentieth of price * sold_count, taken by parts
                 est_monthly_revenue |->
                     price * (sold_count \div 20)
                         + (price * (sold_count % 20)) \div 20]
        shop == IF shop_missing(product)
                THEN [shop_name |-> shop_data.name, shop_location |-> shop_data.loc]
                ELSE <<>>
    IN  IF original_price = 0
        THEN [raised |-> TRUE, product |-> update(product, counts)]
        ELSE [raised |-> FALSE,
              product |-> update(update(update(product, counts), rest), shop)]

\* the optional fields of a product, and a genuine value of each
Supplied ==
    [sold_count |-> 40, review_count |-> 4, review_score |-> 4200,
     original_price |-> 200000, shipping_fee_est |-> 12000,
     shop_name |-> "Shop X", shop_location |-> "Hue",
     stock_status |-> "Het hang"]

TextFields == {"shop_name", "shop_location", "stock_status"}

\* a field that is not supplied is absent, None, or zero / empty
Unsupplied(field, flavour) ==
    IF flavour = "none"
    THEN IF field \in TextFields THEN NoneText ELSE NoneInt
    ELSE IF field \in TextFields THEN "" ELSE 0

Prices == {0, 1500, 100000}

\* a product with the fields of `given` supplied
Partial(source, price, given, flavour) ==
    LET keys == IF flavour = "absent" THEN given ELSE DOMAIN Supplied
    IN  update([f \in keys |->
                   IF f \in given THEN Supplied[f] ELSE Unsupplied(f, flavour)],
               [source |-> source, price |-> price])

Partials ==
    {Partial(source, price, given, flavour) :
        source \in Sources, price \in Prices, given \in SUBSET DOMAIN Supplied,
        flavour \in {"absent", "none", "zero"}}

\* sold counts so small that the twentieth or the tenth of them is below 1
LowSoldCounts == {5, 15}

\* a product that brings such a sold count and nothing else
LowSold ==
    {update(Partial(source, 100000, {"sold_count"}, flavour), [sold_count |-> n]) :
        source \in Sources, n \in LowSoldCounts,
        flavour \in {"absent", "none", "zero"}}

EnrichInit ==
    /\ en_in \in Partials \cup LowSold
    /\ en_out = [pc |-> "call", raised |-> FALSE, product |-> <<>>]

EnrichIdle ==
    /\ en_in = <<>>
    /\ en_out = [pc |-> "idle", raised |-> FALSE, product |-> <<>>]

enrich(rnd) ==
    /\ en_out.pc = "call"
    /\ LET r == enrich_product_data(en_in, rnd)
       IN  en_out' = [pc |-> "returned", raised |-> r.raised, product |-> r.product]
    /\ UNCHANGED en_in

\* ------------------------------------------------- raw values and their text
\* What a raw field holds: None, a number (in thousandths, so that int() of a
\* float is a truncation), or a str (its characters, one string each).
PyNone == [type |-> "none"]

Number(milli) == [type |-> "num", milli |-> milli]

Text(chars) == [type |-> "str", chars |-> chars]

\* a Python int
PyInt(n) == IF n = NoneInt THEN PyNone ELSE Number(n * 1000)

Dong == "d"   \* the currency glyph, U+20AB

DigitChars == {"0", "1", "2", "3", "4", "5", "6", "7", "8", "9"}

DigitValue(c) ==
    CASE c = "0" -> 0 [] c = "1" -> 1 [] c = "2" -> 2 [] c = "3" -> 3
      [] c = "4" -> 4 [] c = "5" -> 5 [] c = "6" -> 6 [] c = "7" -> 7
      [] c = "8" -> 8 [] c = "9" -> 9

\* str(x)
str(raw) ==
    IF raw.type = "str" THEN raw.chars ELSE <<"N", "o", "n", "e">>

\* re.sub('[...]', '', chars): the characters of the class are dropped
re_sub(class, chars) == SelectSeq(chars, LAMBDA c : c \notin class)

\* re.sub(r'[^\d]', '', chars): only the digits are kept
digits_only(chars) == SelectSeq(chars, LAMBDA c : c \in DigitChars)

RECURSIVE digits_value(_, _)
digits_value(chars, acc) ==
    IF chars = <<>> THEN acc
    ELSE digits_value(Tail(chars), 10 * acc + DigitValue(Head(chars)))

\* int(chars) for characters that are digits, letters, '.', ' ' or the glyph:
\* ValueError unless they are digits, and at least one
int_str(chars) ==
    IF chars # <<>> /\ \A i \in 1..Len(chars) : chars[i] \in DigitChars
    THEN [raised |-> FALSE, val |-> digits_value(chars, 0)]
    ELSE [raised |-> TRUE, val |-> 0]

\* re.search(r'[\d\.]+', chars).group(0): the first longest run of digits and
\* dots; <<>> when re.search finds nothing
search_numeric(chars) ==
    LET numeric(i) == chars[i] \in DigitChars \cup {"."}
        starts == {i \in 1..Len(chars) : numeric(i)}
    IN  IF starts = {} THEN <<>>
        ELSE LET first == CHOOSE i \in starts : \A j \in starts : i <= j
                 last == CHOOSE j \in first..Len(chars) :
                             /\ \A i \in first..j : numeric(i)
                             /\ j = Len(chars) \/ ~numeric(j + 1)
             IN  SubSeq(chars, first, last)

\* 'k' in chars.lower()
has_k(chars) == \E i \in 1..Len(chars) : chars[i] \in {"k", "K"}

\* float(token) for a run of digits and dots: ValueError unless there is at
\* most one dot and at least one digit; else the whole part and the value
\* floored to thousandths
float_str(token) ==
    LET dots == {i \in 1..Len(token) : token[i] = "."}
        dot == IF dots = {} THEN Len(token) + 1 ELSE CHOOSE i \in dots : TRUE
        whole == digits_value(SubSeq(token, 1, dot - 1), 0)
        decimals == SubSeq(token, dot + 1, Len(token)) \o <<"0", "0", "0">>
    IN  IF Cardinality(dots) > 1 \/ Len(token) - Cardinality(dots) = 0
        THEN [raised |-> TRUE, whole |-> 0, milli |-> 0]
        ELSE [raised |-> FALSE, whole |-> whole,
              milli |-> 1000 * whole + digits_value(SubSeq(decimals, 1, 3), 0)]

\* the tokens t of up to five characters over '2', '3' and '.' for which the
\* double float(t) * 1000 lies below the decimal product
BelowProduct == {<<"3", "2", ".", "3">>, <<"3", "2", ".", "2", "3">>}

\* int(float(token) * 1000)
times_1000(token) ==
    float_str(token).milli - (IF token \in BelowProduct THEN 1 ELSE 0)

\* mutant: any text price is read as 0
tiki_price_text_zero(raw_price) ==
    IF raw_price.type = "num" THEN Trunc(raw_price.milli, 1000) ELSE 0

\* price_clean of transform_tiki_data
tiki_price(raw_price) ==
    IF raw_price.type = "num" THEN Trunc(raw_price.milli, 1000)
    ELSE IF raw_price.type = "str" /\ raw_price.chars # <<>>
    THEN int_str(digits_only(str(raw_price))).val
    ELSE 0

\* sold_clean of transform_tiki_data
tiki_sold(sold_raw) ==
    IF sold_raw.type = "num" THEN Trunc(sold_raw.milli, 1000)
    ELSE LET match == search_numeric(str(sold_raw)) IN
         IF match = <<>> THEN 0
         ELSE IF float_str(match).raised THEN 0
         ELSE IF has_k(str(sold_raw)) THEN times_1000(match)
         ELSE float_str(match).whole

\* -------------------------------------------- extract_tiki_data, run_tiki_etl
\* A product of the API's data list.  Its price is a number; original_price is
\* None when the API gives neither original_price nor list_price.
ApiProduct(original_price) ==
    [name |-> "iphone 15...", price |-> 100000, quantity_sold |-> 40,
     original_price |-> original_price, discount_rate |-> 20,
     review_count |-> 4, rating_average |-> 4500, shop_name |-> "Tiki Trading"]

\* a product for which the API names no seller: seller.get('name') is None
ApiProductNoShop == [ApiProduct(125000) EXCEPT !.shop_name = NoneText]

\* What one API request comes to: an exception (HTTP error, timeout, invalid
\* JSON), a body without a `data` list, or a body with one.
ApiError == [kind |-> "error", data |-> <<>>]

ApiNoData == [kind |-> "no_data", data |-> <<>>]

\* the data lists tried: up to MaxElems products that carry an original price,
\* one product that carries none, or one product without a seller name
ApiDataLists ==
    SeqsUpTo({ApiProduct(125000)}, MaxElems)
        \cup {<<ApiProduct(NoneInt)>>, <<ApiProductNoShop>>}

ApiResponses ==
    {ApiError, ApiNoData} \cup {[kind |-> "ok", data |-> d] : d \in ApiDataLists}

\* search_queries, by index
TIKI_SEARCH_QUERIES == <<"dien thoai", "laptop">>

\* the draws of `random` tried for the products of one page
TikiDraws ==
    {[sold |-> 50, review_rate |-> 50, review |-> 1, score |-> 3500,
      markup |-> 1100, shipping_fee |-> 0, shop |-> 1, stock |-> "Con hang"],
     [sold |-> 5000, review_rate |-> 100, review |-> 10, score |-> 5000,
      markup |-> 1400, shipping_fee |-> 45000, shop |-> 4,
      stock |-> "Sap het hang"]}

\* product_data = {...}: the raw dict built from one API product; it has
\* neither a `price` nor a `source` nor a `sold_count` key
product_data(product) ==
    [name_raw |-> product.name, price_raw |-> PyInt(product.price),
     sold_raw |-> PyInt(product.quantity_sold),
     review_count |-> IF Falsy(product.review_count) THEN 0 ELSE product.review_count,
     review_score |-> IF Falsy(product.rating_average) THEN 0 ELSE product.rating_average,
     original_price |-> product.original_price,
     discount_rate |-> product.discount_rate,
     shop_name |-> product.shop_name,
     shop_location |-> NoneText, shipping_fee_est |-> NoneInt,
     stock_status |-> NoneText]

\* `for product in api_data['data']` from the k-th product on:
\* final_product = enrich_product_data(product_data)
RECURSIVE parse_page(_, _, _, _)
parse_page(data, k, out, rnd) ==
    IF k > Len(data) THEN [products |-> out, raised |-> FALSE]
    ELSE LET r == enrich_product_data(product_data(data[k]), rnd) IN
         IF r.raised THEN [products |-> out, raised |-> TRUE]
         ELSE parse_page(data, k + 1, Append(out, r.product), rnd)

\* name_raw.replace('...', '').strip()
name_clean(name_raw) ==
    CASE name_raw = "iphone 15..." -> "iphone 15"
      [] name_raw = " iPhone MacBook " -> "iPhone MacBook"
      [] name_raw = "Galaxy Tab..." -> "Galaxy Tab"
      [] OTHER -> name_raw

\* the dict transform_tiki_data appends for one raw product
transform_tiki_product(product) ==
    LET name == name_clean(Get(product, "name_raw", ""))
    IN  [name |-> name,
         price |-> tiki_price(Get(product, "price_raw", PyNone)),
         sold_count |-> tiki_sold(Get(product, "sold_raw", PyInt(0))),
         review_count |-> Get(product, "review_count", 0),
         review_score |-> Get(product, "review_score", 0),
         brand |-> brand(lower(name)), category |-> tiki_category(lower(name)),
         source |-> "Tiki",
         original_price |-> Get(product, "original_price", NoneInt),
         discount_rate |-> Get(product, "discount_rate", NoneInt),
         shop_name |-> Get(product, "shop_name", NoneText),
         shop_location |-> Get(product, "shop_location", NoneText),
         shipping_fee_est |-> Get(product, "shipping_fee_est", NoneInt),
         stock_status |-> Get(product, "stock_status", NoneText),
         rating_count_5s |-> Get(product, "rating_count_5s", NoneInt),
         rating_count_1s |-> Get(product, "rating_count_1s", NoneInt)]

transform_tiki_data(data) ==
    [i \in 1..Len(data) |-> transform_tiki_product(data[i])]

\* the pages argument of extract_tiki_data
tiki_pages == Len(tiki_api[search_query])

\* mutant: a page that fails is skipped and the next one requested
page_failed_never(response) == FALSE

\* the request raised, or 'data' is not a list of the body: break
page_failed(response) == response.kind # "ok"

TikiInit ==
    /\ tiki_api \in [1..Len(TIKI_SEARCH_QUERIES) -> [1..MaxTikiPages -> ApiResponses]]
    /\ tpc = "extract"
    /\ search_query = 1
    /\ tiki_page = 1
    /\ all_products_data = <<>>
    /\ all_transformed_data = <<>>
    /\ requests = <<>>
    /\ enrich_args = {}

TikiIdle ==
    /\ tiki_api = <<>>
    /\ tpc = "idle"
    /\ search_query = 1
    /\ tiki_page = 1
    /\ all_products_data = <<>>
    /\ all_transformed_data = <<>>
    /\ requests = <<>>
    /\ enrich_args = {}

\* one pass of the page loop of extract_tiki_data
request_page(rnd) ==
    /\ tpc = "extract"
    /\ tiki_page <= tiki_pages
    /\ requests' = Append(requests, <<search_query, tiki_page>>)
    /\ LET response == tiki_api[search_query][tiki_page]
           r == parse_page(response.data, 1, <<>>, rnd)
           called == Len(r.products) + (IF r.raised THEN 1 ELSE 0)
       IN  IF page_failed(response)
           THEN /\ tpc' = "extracted"
                /\ UNCHANGED <<tiki_page, all_products_data, enrich_args>>
           ELSE /\ enrich_args' =
                       enrich_args
                           \cup {product_data(response.data[k]) : k \in 1..called}
                /\ IF r.raised
                   THEN tpc' = "raised" /\ UNCHANGED <<tiki_page, all_products_data>>
                   ELSE /\ all_products_data' = all_products_data \o r.products
                        /\ tiki_page' = tiki_page + 1
                        /\ tpc' = tpc
    /\ UNCHANGED <<tiki_api, search_query, all_transformed_data>>

\* range(1, pages + 1) is exhausted: extract_tiki_data returns
pages_exhausted ==
    /\ tpc = "extract"
    /\ tiki_page > tiki_pages
    /\ tpc' = "extracted"
    /\ UNCHANGED <<tiki_api, search_query, tiki_page, all_products_data,
                   all_transformed_data, requests, enrich_args>>

\* run_tiki_etl after extract_tiki_data returned: skip the query when nothing
\* was extracted, else transform and extend; then the next query, or return
next_query ==
    /\ tpc = "extracted"
    /\ all_transformed_data' =
           IF all_products_data = <<>> THEN all_transformed_data
           ELSE all_transformed_data \o transform_tiki_data(all_products_data)
    /\ IF search_query = Len(TIKI_SEARCH_QUERIES)
       THEN /\ tpc' = "returned"
            /\ UNCHANGED <<search_query, tiki_page, all_products_data>>
       ELSE /\ tpc' = "extract"
            /\ search_query' = search_query + 1
            /\ tiki_page' = 1
            /\ all_products_data' = <<>>
    /\ UNCHANGED <<tiki_api, requests, enrich_args>>

\* ------------------------------------------- master_product_pipeline (tasks)
Tasks ==
    {"start", "create_master_table", "populate_sale_periods", "run_tiki_etl",
     "run_lazada_etl", "combine_and_load_data", "track_price_history",
     "send_success_notification", "end"}

\* mutant: the sources wait for the table only, the load for one source
upstream_loose(t) ==
    CASE t = "start" -> {}
      [] t = "create_master_table" -> {"start"}
      [] t = "populate_sale_periods" -> {"create_master_table"}
      [] t = "run_tiki_etl" -> {"create_master_table"}
      [] t = "run_lazada_etl" -> {"create_master_table"}
      [] t = "combine_and_load_data" -> {"run_tiki_etl"}
      [] t = "track_price_history" -> {"combine_and_load_data"}
      [] t = "send_success_notification" ->
             {"combine_and_load_data", "track_price_history"}
      [] t = "end" -> {"send_success_notification"}

\* the tasks directly upstream of a task: the >> lines and the XCom arguments
upstream(t) ==
    CASE t = "start" -> {}
      [] t = "create_master_table" -> {"start"}
      [] t = "populate_sale_periods" -> {"create_master_table"}
      [] t = "run_tiki_etl" -> {"populate_sale_periods"}
      [] t = "run_lazada_etl" -> {"populate_sale_periods"}
      [] t = "combine_and_load_data" -> {"run_tiki_etl", "run_lazada_etl"}
      [] t = "track_price_history" -> {"combine_and_load_data"}
      [] t = "send_success_notification" ->
             {"combine_and_load_data", "track_price_history"}
      [] t = "end" -> {"send_success_notification"}

\* an EmptyOperator executes nothing
EmptyOperators == {"start", "end"}

\* mutant: a failed task instance anywhere in the run stops the scheduling
all_success_fail_stop(t) ==
    /\ \A u \in upstream(t) : task_state[u] = "success"
    /\ \A u \in Tasks : task_state[u] # "failed"

\* the trigger rule of every task (the default): all direct upstream tasks
\* succeeded
all_success(t) == \A u \in upstream(t) : task_state[u] = "success"

DagInit ==
    /\ task_state = [t \in Tasks |-> "none"]
    /\ tries = [t \in Tasks |-> 0]
    /\ finished = <<>>

\* the task instance is queued and starts executing, for the first time or
\* after a failure that left a retry
start_task(t) ==
    /\ task_state[t] \in {"none", "up_for_retry"}
    /\ all_success(t)
    /\ task_state' = [task_state EXCEPT ![t] = "running"]
    /\ tries' = [tries EXCEPT ![t] = @ + 1]
    /\ UNCHANGED finished

\* the execution ends: it returned, or it raised; a raise leaves the instance
\* up for retry while tries <= retries
end_task(t, ok) ==
    /\ task_state[t] = "running"
    /\ ok \/ t \notin EmptyOperators
    /\ task_state' = [task_state EXCEPT ![t] =
                         IF ok THEN "success"
                         ELSE IF tries[t] <= retries THEN "up_for_retry"
                         ELSE "failed"]
    /\ finished' = IF ok \/ tries[t] > retries THEN Append(finished, t)
                   ELSE finished
    /\ UNCHANGED tries

\* a task one of whose upstream tasks did not succeed is never run
upstream_failed(t) ==
    /\ task_state[t] = "none"
    /\ \E u \in upstream(t) : task_state[u] \in {"failed", "upstream_failed"}
    /\ task_state' = [task_state EXCEPT ![t] = "upstream_failed"]
    /\ finished' = Append(finished, t)
    /\ UNCHANGED tries

\* ------------------------------------------------- _parse_reviews_from_html
\* what a key of an aggregateRating object holds: nothing (the key is not
\* there), a number in thousandths, or something float() does not accept
Absent == [kind |-> "absent"]

Num(v) == [kind |-> "num", val |-> v]

Bad == [kind |-> "bad"]

\* float(rating_data.get(key, 0) or 0): the value in thousandths, or the
\* TypeError / ValueError raised
coerce_float(raw) ==
    IF raw.kind = "absent" THEN [raised |-> FALSE, val |-> 0]
    ELSE IF raw.kind = "num" THEN [raised |-> FALSE, val |-> raw.val]
    ELSE [raised |-> TRUE, val |-> 0]

\* the objects of a script: not a dict, a dict without aggregateRating, a dict
\* whose aggregateRating is not a dict, a dict with an aggregateRating object
NotDict == [kind |-> "not_dict"]

NoRating == [kind |-> "no_rating"]

RatingNotDict == [kind |-> "rating_not_dict"]

Rating(count, value) ==
    [kind |-> "rating", reviewCount |-> count, ratingValue |-> value]

\* the try block on one aggregateRating object: the two assignments in order,
\* then return; a coercion that raises leaves the loop to continue
read_rating(rating_data, reviews_info) ==
    LET count == coerce_float(rating_data.reviewCount)
        counted == [reviews_info EXCEPT !.review_count = count.val \div 1000]
        value == coerce_float(rating_data.ratingValue)
    IN  IF count.raised THEN [returns |-> FALSE, reviews_info |-> reviews_info]
        ELSE IF value.raised THEN [returns |-> FALSE, reviews_info |-> counted]
        ELSE [returns |-> TRUE,
              reviews_info |-> [counted EXCEPT !.review_score = value.val]]

\* for candidate in candidates
RECURSIVE candidate_loop(_, _)
candidate_loop(candidates, reviews_info) ==
    IF candidates = <<>>
    THEN [returns |-> FALSE, raised |-> FALSE, reviews_info |-> reviews_info]
    ELSE LET candidate == Head(candidates) IN
         IF candidate.kind \in {"not_dict", "no_rating"}
         THEN candidate_loop(Tail(candidates), reviews_info)
         ELSE IF candidate.kind = "rating_not_dict"
         THEN [returns |-> FALSE, raised |-> TRUE, reviews_info |-> reviews_info]
         ELSE LET r == read_rating(candidate, reviews_info) IN
              IF r.returns
              THEN [returns |-> TRUE, raised |-> FALSE,
                    reviews_info |-> r.reviews_info]
              ELSE candidate_loop(Tail(candidates), r.reviews_info)

\* the scripts: blank, not JSON, one object, a list of objects
Blank == [kind |-> "blank"]

BadJson == [kind |-> "bad_json"]

Object(candidate) == [kind |-> "object", data |-> candidate]

List(candidates) == [kind |-> "list", data |-> candidates]

\* for script in scripts
RECURSIVE script_loop(_, _)
script_loop(ss, reviews_info) ==
    IF ss = <<>>
    THEN [raised |-> FALSE, reviews_info |-> reviews_info]
    ELSE LET script == Head(ss) IN
         IF script.kind \in {"blank", "bad_json"}
         THEN script_loop(Tail(ss), reviews_info)
         ELSE LET candidates == IF script.kind = "list" THEN script.data
                                ELSE <<script.data>>
                  r == candidate_loop(candidates, reviews_info)
              IN  IF r.returns \/ r.raised
                  THEN [raised |-> r.raised, reviews_info |-> r.reviews_info]
                  ELSE script_loop(Tail(ss), r.reviews_info)

\* _parse_reviews_from_html(html), html given by the scripts re.findall finds
parse_reviews_from_html(ss) == script_loop(ss, NoReviews)

CountRaws == {Absent, Num(12700), Num(7000), Bad}

ValueRaws == {Absent, Num(4500), Num(6200), Bad}

Candidates ==
    {NotDict, NoRating, RatingNotDict}
        \cup {Rating(c, v) : c \in CountRaws, v \in ValueRaws}

Scripts ==
    {Blank, BadJson} \cup {Object(c) : c \in Candidates}
        \cup {List(cs) : cs \in SeqsUpTo(Candidates, MaxCandidates)}

ParseInit ==
    /\ scripts \in SeqsUpTo(Scripts, MaxScripts)
    /\ ps_out = [pc |-> "call", raised |-> FALSE, reviews_info |-> NoReviews]

ParseIdle ==
    /\ scripts = <<>>
    /\ ps_out = [pc |-> "idle", raised |-> FALSE, reviews_info |-> NoReviews]

parse ==
    /\ ps_out.pc = "call"
    /\ LET r == parse_reviews_from_html(scripts)
       IN  ps_out' = [pc |-> "returned", raised |-> r.raised,
                      reviews_info |-> r.reviews_info]
    /\ UNCHANGED scripts

\* ------------------------------------------- transform_lazada_data, one item
\* price_clean of transform_lazada_data: the int, or - int() having raised
\* ValueError after the first assignment - the stripped str
lazada_price(price_raw) ==
    LET stripped == re_sub({".", " ", Dong}, price_raw.chars)
        parsed == int_str(stripped)
    IN  IF parsed.raised THEN Text(stripped) ELSE PyInt(parsed.val)

\* sold_clean of transform_lazada_data
lazada_sold(sold_raw) ==
    LET sold_match == search_numeric(sold_raw.chars) IN
    IF sold_match = <<>> THEN 0
    ELSE IF has_k(sold_raw.chars)
    THEN IF float_str(sold_match).raised THEN 0 ELSE times_1000(sold_match)
    ELSE int_str(sold_match).val

\* original_price of transform_lazada_data
lazada_original_price(original_price_raw) ==
    IF original_price_raw.chars = <<>> THEN 0
    ELSE int_str(digits_only(original_price_raw.chars)).val

\* str.strip() of the locations tried
strip(text) == IF text = " Ha Noi " THEN "Ha Noi" ELSE text

\* one pass of the loop of transform_lazada_data: cleaned_item, and what
\* enrich_product_data makes of it.  A price_clean that is a str makes
\* enrich_product_data raise TypeError where it computes with the price.
transform_lazada_product(product, rnd) ==
    LET name == name_clean(product.name_raw)
        price_clean == lazada_price(product.price_raw)
        sold_clean == lazada_sold(product.sold_raw)
        original_price ==
            lazada_original_price(Get(product, "original_price_raw", Text(<<>>)))
        shop_location == Get(product, "shop_location_raw", NoneText)
        cleaned_item ==
            [name |-> name,
             price |-> IF price_clean.type = "num" THEN Trunc(price_clean.milli, 1000)
                       ELSE 0,
             sold_count |-> sold_clean,
             review_count |-> Get(product, "review_count", 0),
             review_score |-> Get(product, "review_score", 0),
             brand |-> brand(lower(name)),
             category |-> lazada_category(lower(name)),
             source |-> "Lazada",
             original_price |-> IF original_price > 0 THEN original_price ELSE NoneInt,
             shop_location |-> IF FalsyText(shop_location) THEN shop_location
                               ELSE strip(shop_location),
             shop_name |-> NoneText]
        enriched == enrich_product_data(cleaned_item, rnd)
    IN  IF price_clean.type = "str" \/ enriched.raised
        THEN [raised |-> TRUE, price_clean |-> price_clean,
              sold_clean |-> sold_clean, product |-> <<>>]
        ELSE [raised |-> FALSE, price_clean |-> price_clean,
              sold_clean |-> sold_clean, product |-> enriched.product]

\* ------------------------------------------------ the cleaning of one listing
\* the texts tried for a price and for a sold count
PriceTexts == SeqsUpTo({"1", "2", ".", " ", Dong, "x"}, MaxPriceLen)

SoldTexts == SeqsUpTo({"2", "3", ".", "k", "K", "b"}, MaxSoldLen)

TikiPrices ==
    {PyNone, Number(0), Number(1222999)} \cup {Text(t) : t \in PriceTexts}

TikiSolds ==
    {PyNone, Number(0), Number(40000)} \cup {Text(t) : t \in SoldTexts}

NameRaws ==
    {"iphone 15...", " iPhone MacBook ", "Laptop iPad", "Dien Thoai Galaxy Tab",
     "Galaxy Tab...", "ThinkPad XPS", "May Tinh Bang", "Op lung"}

\* a Lazada item as extract_lazada_data and the review lookup leave it; its
\* name and its price are not empty
LazadaRaw(name_raw, price_raw, sold_raw, shop_location_raw) ==
    [name_raw |-> name_raw, price_raw |-> price_raw, sold_raw |-> sold_raw,
     product_url |-> "u1", original_price_raw |-> Text(<<>>),
     shop_location_raw |-> shop_location_raw,
     review_count |-> 12, review_score |-> 4500]

\* a Tiki product as extract_tiki_data leaves it
TikiRaw(name_raw, price_raw, sold_raw) ==
    [enrich_product_data(product_data(ApiProduct(125000)),
                         CHOOSE rnd \in TikiDraws : TRUE).product
        EXCEPT !.name_raw = name_raw, !.price_raw = price_raw,
               !.sold_raw = sold_raw]

BasePrice == Text(<<"1", ".", "2", "2", "2">>)

BaseSold == Text(<<"b", "3">>)

\* the listings tried: one field varies at a time
LazadaListing(name_raw, price_raw, sold_raw, shop_location_raw) ==
    [source |-> "Lazada",
     product |-> LazadaRaw(name_raw, price_raw, sold_raw, shop_location_raw)]

TikiListing(name_raw, price_raw, sold_raw) ==
    [source |-> "Tiki", product |-> TikiRaw(name_raw, price_raw, sold_raw)]

\* the draws of `random` tried when a Lazada item is cleaned
CleanDraws ==
    {rnd \in Draws("Lazada") :
        /\ rnd.review_rate = 50 /\ rnd.review = 1 /\ rnd.score = 3500
        /\ rnd.shipping_fee = 0 /\ rnd.shop = 1 /\ rnd.stock = "Con hang"}

NotCleaned ==
    [pc |-> "call", raised |-> FALSE, price_clean |-> PyNone, sold_clean |-> 0,
     product |-> <<>>]

CleanInit ==
    /\ \/ \E n \in NameRaws : cl_in = LazadaListing(n, BasePrice, BaseSold, "")
       \/ \E t \in PriceTexts \ {<<>>} :
             cl_in = LazadaListing("iphone 15...", Text(t), BaseSold, "")
       \/ \E t \in SoldTexts :
             cl_in = LazadaListing("iphone 15...", BasePrice, Text(t), " Ha Noi ")
       \/ \E n \in NameRaws \cup {""} : cl_in = TikiListing(n, BasePrice, BaseSold)
       \/ \E p \in TikiPrices : cl_in = TikiListing("iphone 15...", p, BaseSold)
       \/ \E s \in TikiSolds : cl_in = TikiListing("iphone 15...", BasePrice, s)
    /\ cl_out = NotCleaned

CleanIdle ==
    /\ cl_in = [source |-> "none", product |-> <<>>]
    /\ cl_out = [NotCleaned EXCEPT !.pc = "idle"]

\* transform_lazada_data([product])
clean_lazada(rnd) ==
    /\ cl_out.pc = "call"
    /\ cl_in.source = "Lazada"
    /\ LET r == transform_lazada_product(cl_in.product, rnd)
       IN  cl_out' = [pc |-> "returned", raised |-> r.raised,
                      price_clean |-> r.price_clean, sold_clean |-> r.sold_clean,
                      product |-> r.product]
    /\ UNCHANGED cl_in

\* transform_tiki_data([product])
clean_tiki ==
    /\ cl_out.pc = "call"
    /\ cl_in.source = "Tiki"
    /\ LET r == transform_tiki_product(cl_in.product)
       IN  cl_out' = [pc |-> "returned", raised |-> FALSE,
                      price_clean |-> PyInt(r.price), sold_clean |-> r.sold_count,
                      product |-> r]
    /\ UNCHANGED cl_in

\* ========================================================== specifications
\* Spec: the load side of the DAG runs
Load ==
    /\ \E b \in Batches : \E fail_at \in 0..(Len(b[1]) + Len(b[2]) + 1) :
          run_combine_and_load(b[1], b[2], fail_at)
    /\ UNCHANGED outsideLoad

Retry ==
    /\ \E fail_at \in 0..(Len(tiki_data) + Len(lazada_data) + 1) :
          retry_combine_and_load(fail_at)
    /\ UNCHANGED outsideLoad

Track ==
    /\ \E raises \in BOOLEAN : track_price_history(raises)
    /\ UNCHANGED outsideLoad

NextRun ==
    /\ \E d \in Dates : master_product_pipeline(d)
    /\ UNCHANGED outsideLoad

Init == LoadInit /\ AttachIdle /\ ReviewIdle /\ ExtractIdle /\ EnrichIdle /\ TikiIdle
    /\ DagInit /\ ParseIdle /\ CleanIdle

Next == Load \/ Retry \/ Track \/ NextRun

Spec == Init /\ [][Next]_vars

\* SpecLoadAny: the load side, for batches that hold entries to be skipped
LoadAny ==
    /\ \E b \in AnyBatches : \E fail_at \in 0..(Len(b[1]) + Len(b[2]) + 1) :
          run_combine_and_load(b[1], b[2], fail_at)
    /\ UNCHANGED outsideLoad

NextLoadAny == LoadAny \/ Retry \/ Track \/ NextRun

SpecLoadAny == Init /\ [][NextLoadAny]_vars

\* SpecAttach: one call of _attach_reviews_concurrently
AttachBegin == attach_begin /\ UNCHANGED outsideAttach

SyncFetch == \E idx \in DOMAIN futures : sync_fetch(idx) /\ UNCHANGED outsideAttach

WorkerStart == \E idx \in DOMAIN futures : worker_start(idx) /\ UNCHANGED outsideAttach

WorkerFinish == \E idx \in DOMAIN futures : worker_finish(idx) /\ UNCHANGED outsideAttach

Merge == \E idx \in DOMAIN futures : as_completed(idx) /\ UNCHANGED outsideAttach

PoolExit == pool_exit /\ UNCHANGED outsideAttach

InitAttach == LoadInit /\ AttachInit /\ ReviewIdle /\ ExtractIdle /\ EnrichIdle /\ TikiIdle
    /\ DagInit /\ ParseIdle /\ CleanIdle

NextAttach ==
    AttachBegin \/ SyncFetch \/ WorkerStart \/ WorkerFinish \/ Merge \/ PoolExit

SpecAttach == InitAttach /\ [][NextAttach]_vars

\* SpecReviews: one call of get_product_reviews
Lookup == lookup /\ UNCHANGED outsideReviews

InitReviews == LoadInit /\ AttachIdle /\ ReviewInit /\ ExtractIdle /\ EnrichIdle /\ TikiIdle
    /\ DagInit /\ ParseIdle /\ CleanIdle

NextReviews == Lookup

SpecReviews == InitReviews /\ [][NextReviews]_vars

\* SpecExtract: one call of extract_lazada_data
CreateDriver == \E found \in BOOLEAN : create_driver(found) /\ UNCHANGED outsideExtract

LoopExit == loop_exit /\ UNCHANGED outsideExtract

LoadPage == load_page /\ UNCHANGED outsideExtract

DriverQuit == \E quit_raises \in BOOLEAN : driver_quit(quit_raises) /\ UNCHANGED outsideExtract

InitExtract == LoadInit /\ AttachIdle /\ ReviewIdle /\ ExtractInit /\ EnrichIdle /\ TikiIdle
    /\ DagInit /\ ParseIdle /\ CleanIdle

NextExtract == CreateDriver \/ LoopExit \/ LoadPage \/ DriverQuit

SpecExtract == InitExtract /\ [][NextExtract]_vars

\* SpecEnrich: one call of enrich_product_data
Enrich == \E rnd \in Draws(en_in.source) : enrich(rnd) /\ UNCHANGED outsideEnrich

InitEnrich == LoadInit /\ AttachIdle /\ ReviewIdle /\ ExtractIdle /\ EnrichInit /\ TikiIdle
    /\ DagInit /\ ParseIdle /\ CleanIdle

NextEnrich == Enrich

SpecEnrich == InitEnrich /\ [][NextEnrich]_vars

\* SpecTiki: one call of run_tiki_etl
RequestPage == \E rnd \in TikiDraws : request_page(rnd) /\ UNCHANGED outsideTiki

PagesExhausted == pages_exhausted /\ UNCHANGED outsideTiki

NextQuery == next_query /\ UNCHANGED outsideTiki

InitTiki == LoadInit /\ AttachIdle /\ ReviewIdle /\ ExtractIdle /\ EnrichIdle /\ TikiInit
    /\ DagInit /\ ParseIdle /\ CleanIdle

NextTiki == RequestPage \/ PagesExhausted \/ NextQuery

SpecTiki == InitTiki /\ [][NextTiki]_vars

\* SpecDag: the scheduling of one DAG run
StartTask == \E t \in Tasks : start_task(t) /\ UNCHANGED outsideDag

EndTask == \E t \in Tasks, ok \in BOOLEAN : end_task(t, ok) /\ UNCHANGED outsideDag

UpstreamFailed == \E t \in Tasks : upstream_failed(t) /\ UNCHANGED outsideDag

InitDag ==
    /\ LoadInit /\ AttachIdle /\ ReviewIdle /\ ExtractIdle /\ EnrichIdle /\ TikiIdle
    /\ DagInit /\ ParseIdle /\ CleanIdle

NextDag == StartTask \/ EndTask \/ UpstreamFailed

SpecDag == InitDag /\ [][NextDag]_vars

\* SpecParse: one call of _parse_reviews_from_html
Parse == parse /\ UNCHANGED outsideParse

InitParse ==
    /\ LoadInit /\ AttachIdle /\ ReviewIdle /\ ExtractIdle /\ EnrichIdle /\ TikiIdle
    /\ DagInit /\ ParseInit /\ CleanIdle

NextParse == Parse

SpecParse == InitParse /\ [][NextParse]_vars

\* SpecClean: the cleaning of one listing by its source's transform
CleanLazada == \E rnd \in CleanDraws : clean_lazada(rnd) /\ UNCHANGED outsideClean

CleanTiki == clean_tiki /\ UNCHANGED outsideClean

InitClean ==
    /\ LoadInit /\ AttachIdle /\ ReviewIdle /\ ExtractIdle /\ EnrichIdle /\ TikiIdle
    /\ DagInit /\ ParseIdle /\ CleanInit

NextClean == CleanLazada \/ CleanTiki

SpecClean == InitClean /\ [][NextClean]_vars

\* ================================================================== claims
\* the batch of the current run, and the rows it writes
all_data == tiki_data \o lazada_data

BatchRows == rows_to_insert(all_data)

Ident(r) == <<r.name, r.source>>

\* a step that executes combine_and_load
LoadStep == pc' = "loaded" /\ try_number' = try_number + 1

\* a step that executes track_price_history
TrackStep == pc = "loaded" /\ pc' = "done"

\* the Product fields of the catalog: every column but crawled_at
Content(table) == {[r EXCEPT !.crawled_at = 0] : r \in table}

\* C1: loading the identical batch again, right after a load of it that
\* succeeded, leaves the number of all_products rows and every Product field
\* of every row as they were (crawled_at alone may change).
C1_UpsertIdempotent ==
    [][(/\ LoadStep
        /\ pc = "loaded"
        /\ tiki_data' = tiki_data /\ lazada_data' = lazada_data
        /\ load_summary.processed_total > 0)
       => /\ Cardinality(all_products') = Cardinality(all_products)
          /\ Content(all_products') = Content(all_products)]_vars

\* the identical batch was loaded twice in a row, both times successfully
C1_Witness ==
    /\ pc = "loaded"
    /\ db_error.load = <<FALSE, FALSE>>
    /\ Len(all_data) = MaxBatch
    /\ load_summary.processed_total = MaxBatch

\* C2: a batch write that raises leaves all_products exactly as it was before
\* the call and reports processed_total = 0.
C2_RollbackWholeBatch ==
    [][(LoadStep /\ db_error'.load[Len(db_error'.load)])
       => /\ all_products' = all_products
          /\ load_summary'.processed_total = 0]_vars

\* a batch of several rows was rejected while the catalog held rows
C2_Witness ==
    /\ pc = "loaded"
    /\ LoadRaised
    /\ Len(BatchRows) >= 2
    /\ all_products # {}
    /\ load_summary.processed_total = 0

\* the last listing of each identity in a sequence of rows
IsLatest(rows, j) == \A k \in (j + 1)..Len(rows) : Ident(rows[k]) # Ident(rows[j])

\* C3: the catalog never holds two rows with the same (name, source), and
\* after a batch is loaded the row of each identity carries the price of the
\* listing of that identity that comes last in the batch.
C3_OneRowPerIdentity ==
    /\ \A r1, r2 \in all_products : Ident(r1) = Ident(r2) => r1 = r2
    /\ (pc = "loaded" /\ ~LoadRaised)
       => \A j \in 1..Len(BatchRows) :
            IsLatest(BatchRows, j)
            => \E r \in all_products :
                 Ident(r) = Ident(BatchRows[j]) /\ r.price = BatchRows[j].price

\* a loaded batch held two listings of one identity with different prices
C3_Witness ==
    /\ pc = "loaded"
    /\ ~LoadRaised
    /\ \E i, j \in 1..Len(BatchRows) :
         /\ i < j
         /\ Ident(BatchRows[i]) = Ident(BatchRows[j])
         /\ BatchRows[i].price # BatchRows[j].price
    /\ Cardinality(all_products) >= 2

\* this run repeats the previous run: same date, same identities, and no
\* write of either run was rejected by the database
RepeatsPrevRun ==
    /\ prev_run.ds = ds
    /\ prev_run.idents = Idents(all_data)
    /\ prev_run.idents # {}
    /\ ~prev_run.load_error
    /\ ~prev_run.history_error
    /\ ~LoadRaised

\* C4: when the pipeline runs a second time for the same date with the same
\* product identities, both loads report processed_total > 0 and the second
\* snapshot returns 0 and leaves price_history unchanged.
C4_SecondSnapshotAddsNothing ==
    [][(TrackStep /\ RepeatsPrevRun)
       => /\ prev_run.processed_total > 0
          /\ load_summary.processed_total > 0
          /\ history_count' = 0
          /\ price_history' = price_history]_vars

\* a second run for the same date has finished, with changed prices upstream
C4_Witness ==
    /\ pc = "done"
    /\ RepeatsPrevRun
    /\ ~db_error.history
    /\ price_history # {}
    /\ \E r \in all_products : \E h \in price_history :
         Ident(h) = Ident(r) /\ h.crawl_date = ds /\ h.price # r.price

HistoryKey(h) == <<h.name, h.source, h.crawl_date>>

\* C5: a price_history row is never removed or changed: after every step the
\* row of each (name, source, crawl_date) is the row first written for it.
C5_HistoryImmutable ==
    [][\A h \in price_history :
         /\ h \in price_history'
         /\ \A g \in price_history' : HistoryKey(g) = HistoryKey(h) => g = h]_vars

\* a history row outlived a later load that changed the price of its product
C5_Witness ==
    /\ pc = "done"
    /\ now > 1
    /\ history_count > 0
    /\ \E r \in all_products : \E h \in price_history :
         Ident(h) = Ident(r) /\ h.created_at < r.crawled_at /\ h.price # r.price

\* C6: price_history changes only in a track_price_history step of a run
\* whose load reported processed_total > 0; after a rolled-back or empty load
\* the step adds no row and returns 0.
C6_SnapshotGated ==
    [][/\ (price_history' # price_history)
          => (TrackStep /\ load_summary.processed_total > 0)
       /\ (TrackStep /\ load_summary.processed_total <= 0)
          => (price_history' = price_history /\ history_count' = 0)]_vars

\* the snapshot was skipped after a rejected batch although the catalog held
\* rows that have no history row for the run's date
C6_Witness ==
    /\ pc = "done"
    /\ LoadRaised
    /\ history_count = 0
    /\ \E r \in all_products :
         ~HistoryConflict(price_history, r.name, r.source, ds)

\* the snapshot of the current run executed and committed
SnapshotDone ==
    pc = "done" /\ load_summary.processed_total > 0 /\ ~db_error.history

\* C7: after a successful snapshot for date ds every catalog identity has
\* exactly one price_history row with crawl_date ds.
C7_OneHistoryRowPerEntry ==
    SnapshotDone
    => \A r \in all_products :
         Cardinality({h \in price_history :
                        Ident(h) = Ident(r) /\ h.crawl_date = ds}) = 1

\* a snapshot covered a catalog entry that the run's batch did not contain
C7_Witness ==
    /\ SnapshotDone
    /\ history_count > 0
    /\ \E r \in all_products :
         /\ Ident(r) \notin Idents(all_data)
         /\ \E h \in price_history :
              Ident(h) = Ident(r) /\ h.crawl_date = ds /\ h.created_at = now

\* C8: after a successful load the catalog row of every identity of the batch
\* equals the latest product of that identity in every field the product has.
C8_RowEqualsLatestProduct ==
    (pc = "loaded" /\ ~LoadRaised)
    => \A j \in 1..Len(all_data) :
         (\A k \in (j + 1)..Len(all_data) : Ident(all_data[k]) # Ident(all_data[j]))
         => \E r \in all_products :
              /\ Ident(r) = Ident(all_data[j])
              /\ \A f \in DOMAIN all_data[j] : r[f] = all_data[j][f]

\* the review stats a product carries (none: the keys are absent)
StatsOf(p) ==
    [review_count |-> Get(p, "review_count", NoneInt),
     review_score |-> Get(p, "review_score", NoneInt)]

\* every GET the lookup of a URL may issue fails in transport
FetchFails(url) ==
    \A n \in 1..DEFAULT_REVIEW_RETRIES : site[url][n].kind = "transport"

\* C9: when Attach returns, the items are those passed, in the same order;
\* each item with a URL carries the stats the fetch of its own URL returned,
\* {0, 0.0} when that fetch failed; an item without a URL is untouched.
C9_StatsMatchOwnItem ==
    apc = "returned"
    => /\ Len(products) = Len(items)
       /\ \A i \in 1..Len(items) :
            /\ products[i].name_raw = items[i].name_raw
            /\ products[i].product_url = items[i].product_url
            /\ IF items[i].product_url = ""
               THEN products[i] = items[i]
               ELSE /\ StatsOf(products[i])
                         = safe_get_reviews(items[i].product_url,
                                            site[items[i].product_url],
                                            DEFAULT_REVIEW_RETRIES)
                    /\ FetchFails(items[i].product_url)
                       => StatsOf(products[i]) = NoReviews

\* a pool smaller than the number of URLs returned after the fetches completed
\* out of submission order, one of them failed and another not
C9_Witness ==
    /\ apc = "returned"
    /\ Len(urls) > workers
    /\ workers > 1
    /\ \E a, b \in 1..Len(merged) : a < b /\ merged[a] > merged[b]
    /\ \E i, j \in 1..Len(products) :
         /\ items[i].product_url # "" /\ FetchFails(items[i].product_url)
         /\ items[j].product_url # "" /\ StatsOf(products[j]) # NoReviews

\* C10: a lookup whose first k GETs fail in transport and whose next GET
\* succeeds returns the parsed stats, for every k <= retries; when every GET
\* fails in transport the lookup gives up after retries + 1 GETs.
C10_RetriesFollowFirstAttempt ==
    rv_out.pc = "returned"
    => /\ \A k \in 0..rv_in.retries :
            (/\ \A n \in 1..k : rv_in.answers[n].kind = "transport"
             /\ rv_in.answers[k + 1].kind = "ok")
            => rv_out.reviews_info = rv_in.answers[k + 1].parsed
       /\ (\A n \in 1..(rv_in.retries + 1) : rv_in.answers[n].kind = "transport")
          => rv_out.attempts = rv_in.retries + 1

\* the lookup of a URL meets a parse failure at its n-th GET, the GETs before
\* it having failed in transport
ParseFailsAt(url, n) ==
    /\ url # ""
    /\ n \in 1..DEFAULT_REVIEW_RETRIES
    /\ site[url][n].kind = "parse"
    /\ \A m \in 1..(n - 1) : site[url][m].kind = "transport"

\* C11: a lookup whose n-th GET fails with a parse error issues no further
\* GET and gives {0, 0.0}, whatever the later GETs would have answered; the
\* call still returns and every other item carries the stats of its own lookup.
C11_ParseFailureEndsLookup ==
    apc = "returned"
    => \A i \in 1..Len(items) : \A n \in 1..DEFAULT_REVIEW_RETRIES :
         ParseFailsAt(items[i].product_url, n)
         => /\ get_product_reviews(items[i].product_url, site[items[i].product_url],
                                   DEFAULT_REVIEW_RETRIES).attempts = n
            /\ StatsOf(products[i]) = NoReviews
            /\ \A j \in 1..Len(items) :
                 items[j].product_url \notin {"", items[i].product_url}
                 => StatsOf(products[j])
                      = safe_get_reviews(items[j].product_url,
                                         site[items[j].product_url],
                                         DEFAULT_REVIEW_RETRIES)

\* a pooled call returned in which one lookup met a parse failure while a
\* retry was left and a page with ratings would have followed, and the lookup
\* of another item returned ratings
C11_Witness ==
    /\ apc = "returned"
    /\ workers > 1
    /\ \E i, j \in 1..Len(items) :
         /\ ParseFailsAt(items[i].product_url, 1)
         /\ site[items[i].product_url][2].kind = "ok"
         /\ site[items[i].product_url][2].parsed # NoReviews
         /\ StatsOf(products[i]) = NoReviews
         /\ items[j].product_url # ""
         /\ StatsOf(products[j]) # NoReviews

\* the positions of the driver calls of one kind
CallsOf(op) == {i \in 1..Len(calls) : calls[i].op = op}

\* control is back with the caller of extract_lazada_data
ExtractOver == xpc \in {"returned", "raised"}

\* C12: once the driver exists, no page is loaded after driver.quit() and
\* quit is never called twice; when control is back with the caller, by return
\* or by exception, quit has been called exactly once.
C12_DriverQuitOnce ==
    /\ Cardinality(CallsOf("quit")) <= 1
    /\ \A i \in CallsOf("quit") : \A j \in CallsOf("get") : j < i
    /\ (ExtractOver /\ driver # "none") => Cardinality(CallsOf("quit")) = 1

\* an exception raised while paging, after a page was collected, left the call
\* with the driver closed, the quit itself having raised
C12_Witness ==
    /\ xpc = "raised"
    /\ driver = "quit"
    /\ collected > 0
    /\ Cardinality(CallsOf("get")) = MaxPages
    /\ calls[Len(calls)] = [op |-> "quit", raises |-> TRUE]

\* C14: under a positive cap the list never holds more than cap items, and no
\* page is loaded once cap items have been collected.
C14_CapBoundsItemsAndPages ==
    max_products_per_query > 0
    => /\ Len(raw_products_data) <= max_products_per_query
       /\ collected <= max_products_per_query
       /\ \A i \in CallsOf("get") : calls[i].collected < max_products_per_query

\* the first page listed more items than the cap leaves room for, and the call
\* returned cap items without loading the next page
C14_Witness ==
    /\ xpc = "returned"
    /\ max_products_per_query = 1
    /\ pages = MaxPages
    /\ web[1].elements = <<Element("unsold", "90 d", Missing, "u2"),
                           Element("unsold", "90 d", Missing, "u2")>>
    /\ Len(raw_products_data) = 1
    /\ CallsOf("get") = {1}

\* every page of the call listed its elements
AllPagesListed == \A p \in 1..pages : web[p].outcome = "ok"

\* C15: when every page is listed and no cap applies, each element whose name
\* is readable has an item in the list returned.
C15_NamedItemKept ==
    (xpc = "returned" /\ max_products_per_query = 0 /\ AllPagesListed)
    => \A p \in 1..pages : \A k \in 1..Len(web[p].elements) :
         web[p].elements[k].name # Missing
         => \E i \in 1..Len(raw_products_data) :
              raw_products_data[i].name_raw = web[p].elements[k].name

\* C16: extract_lazada_data raises only when the driver could not be created.
C16_ExtractNeverRaises ==
    xpc = "raised" => driver = "none"

\* a value is there: the key is present and its value is neither None nor zero
Present(product, field) ==
    /\ field \in DOMAIN product
    /\ IF field \in TextFields THEN ~FalsyText(product[field])
       ELSE ~Falsy(product[field])

\* C18: enrich_product_data returns, and the product it returns has sold_count,
\* review_count, review_score, original_price, shop_name and stock_status
\* neither null nor zero, and a shipping_fee_est that is not null.
C18_RequiredFieldsFilled ==
    en_out.pc = "returned"
    => /\ ~en_out.raised
       /\ \A f \in {"sold_count", "review_count", "review_score",
                    "original_price", "shop_name", "stock_status"} :
            Present(en_out.product, f)
       /\ Get(en_out.product, "shipping_fee_est", NoneInt) # NoneInt

\* C19: a sold_count, review_count, review_score, shipping_fee_est, shop_name,
\* shop_location or stock_status that the input supplied is the value of the
\* same field in the product enrich_product_data returns.
C19_SuppliedValuesKept ==
    (en_out.pc = "returned" /\ ~en_out.raised)
    => \A f \in {"sold_count", "review_count", "review_score",
                 "shipping_fee_est", "shop_name", "shop_location",
                 "stock_status"} :
         Present(en_in, f) => en_out.product[f] = en_in[f]

\* the request of page p of query q raises or its body has no data list
Failed(q, p) == tiki_api[q][p].kind \in {"error", "no_data"}

\* the first page of a query whose request fails (past the last page: none)
RECURSIVE first_failed(_, _)
first_failed(q, p) ==
    IF p > Len(tiki_api[q]) \/ Failed(q, p) THEN p
    ELSE first_failed(q, p + 1)

\* the number of products the API listed for a query on the pages before p
RECURSIVE listed_before(_, _)
listed_before(q, p) ==
    IF p <= 1 THEN 0
    ELSE listed_before(q, p - 1) + Len(tiki_api[q][p - 1].data)

\* C13: no page after the first failed page of a query is requested; the
\* extraction of the query ends with the items of the pages before it; a run
\* raises only while parsing a page that was delivered, and a run that returns
\* holds the items of every query up to that query's failed page.
C13_FailedPageStopsQueryOnly ==
    /\ \A i \in 1..Len(requests) :
         requests[i][2] <= first_failed(requests[i][1], 1)
    /\ tpc = "extracted"
       => Len(all_products_data)
            = listed_before(search_query, first_failed(search_query, 1))
    /\ tpc = "raised"
       => ~Failed(search_query, tiki_page)
    /\ tpc = "returned"
       => /\ Len(all_transformed_data)
               = listed_before(1, first_failed(1, 1))
                 + listed_before(2, first_failed(2, 1))
          /\ \A q \in 1..Len(TIKI_SEARCH_QUERIES) : <<q, 1>> \in Range(requests)

\* the run returned: page 2 of the first query failed after page 1 had listed
\* products, page 3 would have listed some, and the second query was run and
\* added products of its own
C13_Witness ==
    /\ tpc = "returned"
    /\ tiki_api[1][1].data # <<>>
    /\ Failed(1, 2)
    /\ tiki_api[1][3].data # <<>>
    /\ <<1, 3>> \notin Range(requests)
    /\ <<2, 1>> \in Range(requests)
    /\ Len(all_transformed_data) > Len(tiki_api[1][1].data)

\* C20: every product run_tiki_etl returns for the load carries an
\* est_monthly_revenue equal to floor(price * sold_count * 0.05) of its own
\* price and sold_count.
C20_RevenueFromOwnPriceAndSold ==
    tpc = "returned"
    => \A i \in 1..Len(all_transformed_data) :
         /\ "est_monthly_revenue" \in DOMAIN all_transformed_data[i]
         /\ all_transformed_data[i].est_monthly_revenue
              = (all_transformed_data[i].price
                 * all_transformed_data[i].sold_count) \div 20

SourceTasks == {"run_tiki_etl", "run_lazada_etl"}

\* C17: neither source task is upstream of the other; once
\* populate_sale_periods succeeded, a source task that has not run, or is up
\* for retry, can start and one that is running can finish, whatever the state
\* of the other; a source task fails only by its own executions failing and is
\* never marked upstream_failed.
C17_SourceTasksIndependent ==
    \A t \in SourceTasks :
      /\ upstream(t) \cap SourceTasks = {}
      /\ (/\ task_state["populate_sale_periods"] = "success"
          /\ task_state[t] \in {"none", "up_for_retry"})
         => ENABLED start_task(t)
      /\ task_state[t] = "running"
         => ENABLED end_task(t, TRUE) /\ ENABLED end_task(t, FALSE)
      /\ task_state[t] = "failed" => tries[t] = retries + 1
      /\ task_state[t] = "upstream_failed"
         => task_state["populate_sale_periods"] # "success"

\* run_lazada_etl failed for good; run_tiki_etl ended after that, having been
\* retried once, and succeeded
C17_Witness ==
    /\ task_state["run_lazada_etl"] = "failed"
    /\ task_state["run_tiki_etl"] = "success"
    /\ tries["run_tiki_etl"] = retries + 1
    /\ \E i, j \in 1..Len(finished) :
         i < j /\ finished[i] = "run_lazada_etl" /\ finished[j] = "run_tiki_etl"

\* a batch entry that is a product with every required key
WellFormed(product) ==
    {"name", "price", "sold_count", "brand", "category", "source"}
        \subseteq DOMAIN product

\* C26: when the write of a batch is not rejected, processed_total is the
\* number of its entries that are products with every required key, and each
\* of them has its row in the catalog; the other entries are passed over.
C26_MalformedSkippedOthersLoaded ==
    (pc = "loaded" /\ ~LoadRaised)
    => /\ load_summary.processed_total
            = Cardinality({j \in 1..Len(all_data) : WellFormed(all_data[j])})
       /\ \A j \in 1..Len(all_data) :
            WellFormed(all_data[j])
            => \E r \in all_products :
                 r.name = all_data[j].name /\ r.source = all_data[j].source

\* a batch of a None entry and a product was loaded, the first run's: the
\* product was counted and is the only row
C26_Witness ==
    /\ pc = "loaded"
    /\ ~LoadRaised
    /\ now = 1
    /\ Len(all_data) = MaxBatch
    /\ all_data[1] = NoneProduct
    /\ \E j \in 1..Len(all_data) : WellFormed(all_data[j])
    /\ load_summary.processed_total = Len(all_data) - 1
    /\ Cardinality(all_products) = 1

\* the lookups in progress: the fetches running on pool threads, or the one
\* the calling thread is making when there is no pool
InFlight ==
    IF apc = "pool" THEN Cardinality(InState("running"))
    ELSE IF apc = "sync" THEN 1
    ELSE 0

\* C27: for a worker limit of at least one, the lookups in progress never
\* exceed min(max_workers, number of products with a URL); with exactly one
\* URL no pool is created and the calling thread makes the fetch.
C27_InFlightBounded ==
    /\ max_workers >= 1 => InFlight <= Min(max_workers, Len(urls))
    /\ Len(urls) = 1 => apc # "pool" /\ InState("running") = {}

\* a pool of MaxWorkers threads is saturated while a further fetch is queued
C27_Witness ==
    /\ apc = "pool"
    /\ max_workers = MaxWorkers
    /\ Len(urls) > max_workers
    /\ Cardinality(InState("running")) = max_workers
    /\ InState("queued") # {}

\* the failed attempts of the lookup that another attempt followed
FollowedFailures ==
    {n \in 1..rv_out.attempts :
        rv_in.answers[n].kind = "transport" /\ n < rv_out.attempts}

\* C28: a lookup that returned has slept min(3n, 10) after exactly those
\* failed attempts n that another attempt followed, and after no other.
C28_DelayOnlyBeforeAnotherAttempt ==
    rv_out.pc = "returned"
    => rv_out.slept
         = [n \in 1..Cardinality(FollowedFailures) |-> Min(3 * n, 10)]

\* the objects of the scripts of the page, in the order the parser meets them
RECURSIVE ObjectsOf(_)
ObjectsOf(ss) ==
    IF ss = <<>> THEN <<>>
    ELSE (IF Head(ss).kind = "list" THEN Head(ss).data
          ELSE IF Head(ss).kind = "object" THEN <<Head(ss).data>>
          ELSE <<>>) \o ObjectsOf(Tail(ss))

PageObjects == ObjectsOf(scripts)

IsRating(j) == PageObjects[j].kind = "rating"

HasBoth(j) ==
    /\ IsRating(j)
    /\ PageObjects[j].reviewCount.kind # "absent"
    /\ PageObjects[j].ratingValue.kind # "absent"

Coercible(j) ==
    /\ IsRating(j)
    /\ PageObjects[j].reviewCount.kind # "bad"
    /\ PageObjects[j].ratingValue.kind # "bad"

\* the stats the object's two numbers stand for
ObjectStats(j) ==
    [review_count |-> PageObjects[j].reviewCount.val \div 1000,
     review_score |-> PageObjects[j].ratingValue.val]

\* the stats of the first object that satisfies Chosen, {0, 0.0} without one
FirstStats(Chosen(_)) ==
    IF \E j \in 1..Len(PageObjects) : Chosen(j)
    THEN ObjectStats(CHOOSE j \in 1..Len(PageObjects) :
                    Chosen(j) /\ \A i \in 1..(j - 1) : ~Chosen(i))
    ELSE NoReviews

\* C29: on a page whose rating objects hold numbers where they hold anything,
\* the parser returns the stats of the first object whose aggregate rating
\* has both a count and a value; an object lacking either is passed over.
C29_FirstObjectWithBoth ==
    (/\ ps_out.pc = "returned"
     /\ \A j \in 1..Len(PageObjects) :
          PageObjects[j].kind # "rating_not_dict"
          /\ (IsRating(j) => Coercible(j)))
    => /\ ~ps_out.raised
       /\ ps_out.reviews_info = FirstStats(HasBoth)

\* C30: on a page whose rating objects all have a count and a value, an
\* object whose count or value fails the numeric coercion contributes
\* nothing: the result is the stats of the first object with two numbers,
\* or {0, 0.0} when there is none.
C30_FailedCoercionContributesNothing ==
    (/\ ps_out.pc = "returned"
     /\ \A j \in 1..Len(PageObjects) :
          PageObjects[j].kind # "rating_not_dict"
          /\ (IsRating(j) => HasBoth(j)))
    => /\ ~ps_out.raised
       /\ ps_out.reviews_info = FirstStats(Coercible)

\* the raw listing being cleaned, and what was made of it
RawPrice == cl_in.product.price_raw

RawSold == cl_in.product.sold_raw

Cleaned == cl_out.pc = "returned"

\* the integer formed by the digits of a text, read from its end
RECURSIVE IntOfDigits(_)
IntOfDigits(chars) ==
    IF chars = <<>> THEN 0
    ELSE LET front == SubSeq(chars, 1, Len(chars) - 1)
             last == chars[Len(chars)]
         IN  IF last \in DigitChars THEN 10 * IntOfDigits(front) + DigitValue(last)
             ELSE IntOfDigits(front)

HasDigit(chars) == \E i \in 1..Len(chars) : chars[i] \in DigitChars

\* a text of digits, '.' separators, whitespace and the currency glyph
SeparatedDigits(chars) ==
    /\ HasDigit(chars)
    /\ \A i \in 1..Len(chars) : chars[i] \in DigitChars \cup {".", " ", Dong}

\* C22: in both adapters a text price made of digits, '.' separators,
\* whitespace and the currency glyph is cleaned to the integer its digits
\* form, and a numeric price to its integer part.
C22_PriceTextToInteger ==
    Cleaned
    => /\ (RawPrice.type = "str" /\ SeparatedDigits(RawPrice.chars))
          => cl_out.price_clean = PyInt(IntOfDigits(RawPrice.chars))
       /\ RawPrice.type = "num"
          => /\ cl_out.price_clean.type = "num"
             /\ cl_out.price_clean.milli % 1000 = 0
             /\ cl_out.price_clean.milli <= RawPrice.milli
             /\ RawPrice.milli < cl_out.price_clean.milli + 1000

\* the Lazada price "1.222d" was cleaned to 1222 and the item enriched
C22_Witness ==
    /\ Cleaned
    /\ cl_in.source = "Lazada"
    /\ RawPrice = Text(<<"1", ".", "2", "2", "2", Dong>>)
    /\ ~cl_out.raised
    /\ cl_out.product.price = 1222

\* a price text that is not an integer once it is stripped: for Lazada of
\* '.', whitespace and the glyph, for Tiki of everything but digits
Unparseable ==
    /\ RawPrice.type = "str"
    /\ RawPrice.chars # <<>>
    /\ IF cl_in.source = "Lazada" THEN ~SeparatedDigits(RawPrice.chars)
       ELSE ~HasDigit(RawPrice.chars)

\* C23: in both adapters a price text that cannot be parsed as an integer
\* after stripping is cleaned to the integer 0, and the listing is carried on
\* without raising, its price 0.
C23_UnparseablePriceIsZero ==
    (Cleaned /\ Unparseable)
    => /\ cl_out.price_clean = PyInt(0)
       /\ ~cl_out.raised
       /\ cl_out.product.price = 0

\* the leading numeric token of a sold-count text, and whether it is a number
SoldToken == search_numeric(RawSold.chars)

TokenParses ==
    /\ SoldToken # <<>>
    /\ HasDigit(SoldToken)
    /\ Cardinality({i \in 1..Len(SoldToken) : SoldToken[i] = "."}) <= 1

\* the decimals of the token
TokenDecimals ==
    Len(SoldToken)
        - (CHOOSE i \in 1..(Len(SoldToken) + 1) :
              /\ i <= Len(SoldToken) => SoldToken[i] = "."
              /\ \A j \in 1..(i - 1) : SoldToken[j] # ".")

\* C24: a sold-count text is cleaned to its leading numeric token, times 1000
\* when the text contains 'k' or 'K'; a text without a numeric token, or with
\* one that is not a number, gives 0; a whole numeric sold count is kept.
C24_SoldTextToCount ==
    Cleaned
    => /\ RawSold.type = "str"
          => IF ~TokenParses THEN cl_out.sold_clean = 0
             ELSE IF has_k(RawSold.chars)
             THEN TokenDecimals <= 3
                  => cl_out.sold_clean = float_str(SoldToken).milli
             ELSE (\A i \in 1..Len(SoldToken) : SoldToken[i] # ".")
                  => cl_out.sold_clean = IntOfDigits(SoldToken)
       /\ (RawSold.type = "num" /\ RawSold.milli % 1000 = 0)
          => cl_out.sold_clean * 1000 = RawSold.milli

\* the keywords of each category
PhoneKeywords == {"dien thoai", "iphone"}

LaptopKeywords == {"laptop", "macbook", "thinkpad", "xps"}

TabletKeywords == {"may tinh bang", "ipad", "galaxy tab"}

\* the name of the listing has one of the keywords
NameHas(keywords) ==
    keywords \cap keywords_in(lower(name_clean(cl_in.product.name_raw))) # {}

\* C25: the category of a cleaned product is that of the first of phone,
\* laptop, tablet of which its name contains a keyword, and "Accessory" when
\* it contains none; being a function of the name, it is the same in both
\* adapters.
C25_CategoryByPriority ==
    (Cleaned /\ ~cl_out.raised)
    => cl_out.product.category =
         (IF NameHas(PhoneKeywords) THEN "Dien thoai"
          ELSE IF NameHas(LaptopKeywords) THEN "Laptop"
          ELSE IF NameHas(TabletKeywords) THEN "May tinh bang"
          ELSE "Accessory")

\* a Tiki product named with a phone and a laptop keyword was classified
C25_Witness ==
    /\ Cleaned
    /\ cl_in.source = "Tiki"
    /\ NameHas(PhoneKeywords)
    /\ NameHas(LaptopKeywords)
    /\ cl_out.product.category = "Dien thoai"

\* the keys Clean sets on a product: its canonical name, price, sold count
\* and source
NormalizedKeys == {"name", "price", "sold_count", "source"}

\* C21: in run_tiki_etl, enrich_product_data is only ever called on a product
\* that transform_tiki_data has normalized (name, price, sold_count and
\* source set), and every product handed on to the load is one that
\* enrich_product_data returned (it carries est_monthly_revenue).
C21_FillAfterClean ==
    /\ \A product \in enrich_args : NormalizedKeys \subseteq DOMAIN product
    /\ \A j \in 1..Len(all_transformed_data) :
         "est_monthly_revenue" \in DOMAIN all_transformed_data[j]

\* the pages of the query whose product region did not appear in time
TimedOut(p) == web[p].outcome = "wait_timeout"

\* C31: once the product region has not appeared on a page of the query within
\* the wait timeout, extract_lazada_data loads no later page of that query.
C31_WaitTimeoutStopsQuery ==
    \A i \in 1..Len(calls) :
        calls[i].op = "get"
        => \A p \in 1..(calls[i].page - 1) : ~TimedOut(p)

\* page p of query q came back with an empty data list
NoItems(q, p) == tiki_api[q][p].kind = "ok" /\ tiki_api[q][p].data = <<>>

\* C32: once a page of a query has yielded no item, extract_tiki_data requests
\* no further page of that query.
C32_EmptyPageStopsQuery ==
    \A i \in 1..Len(requests) :
        \A p \in 1..(requests[i][2] - 1) : ~NoItems(requests[i][1], p)

\* no product the API lists names its seller
NoSellerNamed ==
    \A q \in DOMAIN tiki_api : \A p \in DOMAIN tiki_api[q] :
        \A k \in 1..Len(tiki_api[q][p].data) :
            tiki_api[q][p].data[k].shop_name = NoneText

\* C35: a Tiki product handed on to the load, whose shipping fee and shop the
\* API did not give, has a shipping_fee_est of 0, 12000 or 15000 and the name
\* and location of an entry of MOCK_SHOPS_TIKI.
C35_BackfillFromOwnSource ==
    NoSellerNamed
    => \A j \in 1..Len(all_transformed_data) :
          /\ all_transformed_data[j].shipping_fee_est \in {0, 12000, 15000}
          /\ \E k \in 1..Len(MOCK_SHOPS_TIKI) :
                /\ all_transformed_data[j].shop_name = MOCK_SHOPS_TIKI[k].name
                /\ all_transformed_data[j].shop_location = MOCK_SHOPS_TIKI[k].loc

\* C33: when enrich_product_data fills a missing or zero review_count, the
\* value lies between max(1, floor(0.05 * sold_count)) and
\* max(1, floor(0.10 * sold_count)), so it is exactly 1 when a tenth of
\* sold_count is below 1.
C33_ReviewCountWithinRates ==
    (/\ en_out.pc = "returned"
     /\ ~en_out.raised
     /\ Falsy(Get(en_in, "review_count", NoneInt))
     /\ en_out.product.sold_count >= 1)
    => LET sold_count == en_out.product.sold_count
       IN  /\ en_out.product.review_count >= Max(1, (sold_count * 5) \div 100)
           /\ en_out.product.review_count <= Max(1, (sold_count * 10) \div 100)

\* the absolute value
Abs(n) == IF n >= 0 THEN n ELSE -n

\* C34: after enrich_product_data the discount_rate is the percentage
\* (original_price - price) / original_price * 100 rounded to the nearest
\* integer: it is no further than one half from that percentage.
C34_DiscountRateRounded ==
    (en_out.pc = "returned" /\ ~en_out.raised)
    => LET original_price == en_out.product.original_price
           price == en_out.product.price
           discount_rate == en_out.product.discount_rate
       IN  2 * Abs((original_price - price) * 100 - discount_rate * original_price)
               <= original_price

\* C37: after enrich_product_data of a product with price > 0, original_price
\* is strictly greater than price and discount_rate lies in 0..99, also when
\* the input original_price was absent or not greater than price.
C37_OriginalAbovePrice ==
    (en_out.pc = "returned" /\ Get(en_in, "price", 0) > 0)
    => /\ ~en_out.raised
       /\ en_out.product.original_price > en_out.product.price
       /\ en_out.product.discount_rate \in 0..99

\* C36: the review_count _parse_reviews_from_html returns is an integer of at
\* least 0 and the review_score lies in [0, 5], whatever the aggregateRating
\* objects of the page hold.
C36_ReviewStatsInRange ==
    (ps_out.pc = "returned" /\ ~ps_out.raised)
    => /\ ps_out.reviews_info.review_count \in Nat
       /\ ps_out.reviews_info.review_score >= 0
       /\ ps_out.reviews_info.review_score <= 5000

\* the name, the price, the sold-count text and the link of e can all be read
AllReadable(e) ==
    e.name # Missing /\ e.price # Missing /\ e.sold # Missing /\ e.href # Missing

\* C38: an item of a rendered page whose name, price, sold-count text and link
\* are all readable is emitted when no cap is set: the read of the sold count
\* never drops the item nor leaves its link unread.
C38_ReadableItemEmitted ==
    (xpc = "returned" /\ max_products_per_query = 0)
    => \A p \in 1..Len(web) : \A k \in 1..Len(web[p].elements) :
          AllReadable(web[p].elements[k])
          => \E j \in 1..Len(raw_products_data) :
                /\ raw_products_data[j].name_raw = web[p].elements[k].name
                /\ raw_products_data[j].price_raw = web[p].elements[k].price
                /\ raw_products_data[j].sold_raw = web[p].elements[k].sold

\* C39: every product that comes out of the cleaning of a listing, and so
\* every product handed to the load, has a name that is not empty: a raw item
\* without a name never gets that far.
C39_NameNotEmpty ==
    (cl_out.pc = "returned" /\ ~cl_out.raised) => cl_out.product.name # ""

\* the task instance has started executing at least once
Started(t) == task_state[t] \in {"running", "success", "failed", "up_for_retry"}

\* C40: a source task starts only when create_master_table and
\* populate_sale_periods have both succeeded, combine_and_load_data only when
\* both source tasks have succeeded, and track_price_history only when
\* combine_and_load_data has succeeded.
C40_TaskOrder ==
    /\ \A t \in {"run_tiki_etl", "run_lazada_etl"} :
          Started(t) => /\ task_state["create_master_table"] = "success"
                        /\ task_state["populate_sale_periods"] = "success"
    /\ Started("combine_and_load_data")
          => /\ task_state["run_tiki_etl"] = "success"
             /\ task_state["run_lazada_etl"] = "success"
    /\ Started("track_price_history")
          => task_state["combine_and_load_data"] = "success"

\* track_price_history has started, after a source task needed a retry
C40_Witness ==
    /\ Started("track_price_history")
    /\ tries["run_lazada_etl"] > 1

====
